---------------------------- MODULE Spec2Model ----------------------------
(***************************************************************************)
(* Model of the cost-basis lot ledger (package ledger: lot.go, ledger.go). *)
(*                                                                         *)
(* float64 values are modelled as q + e*u, where q and e are exact         *)
(* rationals and u = 10^-16 is one "dust" unit (about one unit in the last *)
(* place of a float64 near 1.0).  Terms in u^2 are dropped.  The dust part *)
(* is what the code's tolerances act on: RoundPlaces(f, 12) rounds to      *)
(* 10^4 dust units, and the literal 0.999999999999999 is 1 - 10 dust       *)
(* units.  NaN and the infinities behave as in IEEE 754: 0/0 is NaN,       *)
(* x/0 is +Inf for x > 0, and every ordered comparison with NaN is false.  *)
(* The rounding error of a single float64 operation is not modelled.       *)
(*                                                                         *)
(* Pointers to a Lot are indexes into the ledger's lots slice; the nil     *)
(* pointer is index 0.  A lot name "1.2.spendCapitalGains.1" is the        *)
(* sequence <<1, 2, 0, 1>>: the components between the dots, the literal   *)
(* component "spendCapitalGains" written 0 (no counter ever yields 0).     *)
(* Dates are day numbers; the zero time.Time{} is day 0.                   *)
(***************************************************************************)
EXTENDS Integers, Sequences, FiniteSets, TLC

VARIABLES lots, sequenceGenerator, err, last, prev, steps, replica

vars == <<lots, sequenceGenerator, err, last, prev, steps, replica>>

-----------------------------------------------------------------------------
(* Exact rationals.  A rational whose numerator and denominator TLC's      *)
(* integers hold is <<n, d>> in lowest terms with d > 0; any other is       *)
(* <<s, N, D>>: the sign s (1 or -1) and a numerator and a denominator as   *)
(* naturals written in base 1000, lowest limb first, no leading zero limb.  *)

\* With(v, F) is F(v) with v evaluated once: the value of a local variable.
With(v, F(_)) == F(v)

Abs(n) == IF n < 0 THEN -n ELSE n

RECURSIVE GCD(_, _)
GCD(a, b) == IF b = 0 THEN a ELSE GCD(b, a % b)

Rat(n, d) ==
    LET g == GCD(Abs(n), Abs(d))
        s == IF d < 0 THEN -1 ELSE 1
    IN  <<s * (n \div g), s * (d \div g)>>

RZero == <<0, 1>>
ROne == <<1, 1>>
RInt(n) == <<n, 1>>

Max(S) == CHOOSE x \in S : \A y \in S : y <= x

\* w without its leading zero limbs.
WTrim(w) == SubSeq(w, 1, Max({0} \cup {i \in 1..Len(w) : w[i] # 0}))

\* The limbs of the natural n.
WNat(n) == WTrim(<<n % 1000, (n \div 1000) % 1000, (n \div 1000000) % 1000, n \div 1000000000>>)

\* w is below 2 * 10^9, and WInt(w) is its value.
WFits(w) == Len(w) <= 3 \/ (Len(w) = 4 /\ w[4] <= 1)
WLimb(w, i) == IF i <= Len(w) THEN w[i] ELSE 0
WInt(w) == WLimb(w, 1) + 1000 * WLimb(w, 2) + 1000000 * WLimb(w, 3) + 1000000000 * WLimb(w, 4)

\* -1, 0 or 1 as a is below, equal to or above b.
WCmpAt(a, b, i) == IF i = 0 THEN 0 ELSE IF a[i] < b[i] THEN -1 ELSE 1
WCmp(a, b) ==
    IF Len(a) < Len(b) THEN -1 ELSE IF Len(a) > Len(b) THEN 1
    ELSE WCmpAt(a, b, Max({0} \cup {i \in 1..Len(a) : a[i] # b[i]}))

\* The limbs of the natural that r writes with entries of any size or sign:
\* each entry hands what it holds beyond a limb to the next, as long as any
\* does.
RECURSIVE WCarry(_)
WCarry(r) ==
    IF \A i \in 1..Len(r) : r[i] >= 0 /\ r[i] < 1000 THEN WTrim(r)
    ELSE WCarry([i \in 1..(Len(r) + 1) |->
                    (IF i <= Len(r) THEN r[i] % 1000 ELSE 0)
                        + (IF i > 1 THEN r[i - 1] \div 1000 ELSE 0)])

WAdd(a, b) == WCarry([i \in 1..(IF Len(a) > Len(b) THEN Len(a) ELSE Len(b)) |-> WLimb(a, i) + WLimb(b, i)])

\* a - b, for a >= b
WSub(a, b) == WCarry([i \in 1..Len(a) |-> a[i] - WLimb(b, i)])

\* The sum of a[i] * b[k + 1 - i] over i in lo..hi.
RECURSIVE WConv(_, _, _, _, _)
WConv(a, b, k, lo, hi) ==
    IF lo > hi THEN 0
    ELSE IF lo = hi THEN a[lo] * b[k + 1 - lo]
    ELSE WConv(a, b, k, lo, (lo + hi) \div 2) + WConv(a, b, k, (lo + hi) \div 2 + 1, hi)

WMul(a, b) ==
    IF a = <<>> \/ b = <<>> THEN <<>>
    ELSE WCarry([k \in 1..(Len(a) + Len(b) - 1) |->
                    WConv(a, b, k, IF k > Len(b) THEN k + 1 - Len(b) ELSE 1,
                          IF k < Len(a) THEN k ELSE Len(a))])

\* The rational s * N / D: in lowest terms when TLC's integers hold N and D.
WRat(s, N, D) ==
    IF N = <<>> THEN RZero
    ELSE IF WFits(N) /\ WFits(D) THEN Rat(s * WInt(N), WInt(D))
    ELSE <<s, N, D>>

\* A rational written with limbs.
Wide(a) == IF Len(a) = 3 THEN a ELSE <<IF a[1] < 0 THEN -1 ELSE 1, WNat(Abs(a[1])), WNat(a[2])>>

\* a + b on rationals written with limbs, x and y being the numerators over
\* the common denominator.
WRAddOver(a, b, x, y) ==
    IF a[1] = b[1] THEN WRat(a[1], WAdd(x, y), WMul(a[3], b[3]))
    ELSE IF WCmp(x, y) >= 0 THEN WRat(a[1], WSub(x, y), WMul(a[3], b[3]))
    ELSE WRat(b[1], WSub(y, x), WMul(a[3], b[3]))
WRAdd(a, b) == WRAddOver(a, b, WMul(a[2], b[3]), WMul(b[2], a[3]))

\* The arithmetic on a takes no more than TLC's integers hold.
Small(a) == Len(a) = 2 /\ a[1] < 32768 /\ a[1] > -32768 /\ a[2] < 32768

RAdd(a, b) ==
    IF Small(a) /\ Small(b) THEN Rat(a[1] * b[2] + b[1] * a[2], a[2] * b[2])
    ELSE WRAdd(Wide(a), Wide(b))
RNeg(a) == IF Len(a) = 2 THEN <<-a[1], a[2]>> ELSE <<-a[1], a[2], a[3]>>
RSub(a, b) == RAdd(a, RNeg(b))
RMul(a, b) ==
    IF Small(a) /\ Small(b) THEN Rat(a[1] * b[1], a[2] * b[2])
    ELSE With(Wide(a), LAMBDA x : With(Wide(b), LAMBDA y :
         WRat(x[1] * y[1], WMul(x[2], y[2]), WMul(x[3], y[3]))))
RDiv(a, b) ==
    IF Small(a) /\ Small(b) THEN Rat(a[1] * b[2], a[2] * b[1])
    ELSE With(Wide(a), LAMBDA x : With(Wide(b), LAMBDA y :
         WRat(x[1] * y[1], WMul(x[2], y[3]), WMul(x[3], y[2]))))
RSgn(a) == IF a[1] > 0 THEN 1 ELSE IF a[1] < 0 THEN -1 ELSE 0
RLess(a, b) ==
    IF Small(a) /\ Small(b) THEN a[1] * b[2] < b[1] * a[2]
    ELSE RSgn(RSub(a, b)) < 0
REq(a, b) == IF Len(a) = 2 /\ Len(b) = 2 THEN a = b ELSE RSgn(RSub(a, b)) = 0

-----------------------------------------------------------------------------
(* float64 values.                                                         *)

Fin(q, e) == [k |-> "fin", q |-> q, e |-> e]
NaN == [k |-> "nan", q |-> RZero, e |-> RZero]
PInf == [k |-> "inf", q |-> ROne, e |-> RZero]
NInf == [k |-> "inf", q |-> RNeg(ROne), e |-> RZero]
Zero == Fin(RZero, RZero)
One == Fin(ROne, RZero)
Num(n) == Fin(RInt(n), RZero)
\* n + k dust units
NumDust(n, k) == Fin(RInt(n), RInt(k))
\* The decimal literal n * 10^-places
Dec(n, places) == Fin(Rat(n, 10 ^ places), RZero)

IsNaN(x) == x.k = "nan"
IsInf(x) == x.k = "inf"
IsZero(x) == x.k = "fin" /\ x.q = RZero /\ x.e = RZero
Sgn(x) == IF x.q # RZero THEN RSgn(x.q) ELSE RSgn(x.e)
SignedInf(s) == IF s < 0 THEN NInf ELSE PInf

Neg(x) == IF IsNaN(x) THEN NaN ELSE [x EXCEPT !.q = RNeg(x.q), !.e = RNeg(x.e)]

Add(x, y) ==
    IF IsNaN(x) \/ IsNaN(y) THEN NaN
    ELSE IF IsInf(x) /\ IsInf(y) THEN (IF x = y THEN x ELSE NaN)
    ELSE IF IsInf(x) THEN x
    ELSE IF IsInf(y) THEN y
    ELSE Fin(RAdd(x.q, y.q), RAdd(x.e, y.e))

Sub(x, y) == Add(x, Neg(y))

Mul(x, y) ==
    IF IsNaN(x) \/ IsNaN(y) THEN NaN
    ELSE IF IsInf(x) \/ IsInf(y)
         THEN (IF IsZero(x) \/ IsZero(y) THEN NaN ELSE SignedInf(Sgn(x) * Sgn(y)))
    ELSE Fin(RMul(x.q, y.q), RAdd(RMul(x.q, y.e), RMul(x.e, y.q)))

\* A quotient of the order of 1/u (a non-dust value over a dust-sized one)
\* is beyond the range the model represents and is given as an infinity.
Div(x, y) ==
    IF IsNaN(x) \/ IsNaN(y) THEN NaN
    ELSE IF IsInf(x)
         THEN (IF IsInf(y) THEN NaN ELSE SignedInf(Sgn(x) * (IF Sgn(y) < 0 THEN -1 ELSE 1)))
    ELSE IF IsInf(y) THEN Zero
    ELSE IF IsZero(y) THEN (IF IsZero(x) THEN NaN ELSE SignedInf(Sgn(x)))
    ELSE IF y.q # RZero
         THEN Fin(RDiv(x.q, y.q),
                  RDiv(RSub(RMul(x.e, y.q), RMul(x.q, y.e)), RMul(y.q, y.q)))
    ELSE IF x.q = RZero THEN Fin(RDiv(x.e, y.e), RZero)
    ELSE SignedInf(Sgn(x) * Sgn(y))

Eq(x, y) == ~IsNaN(x) /\ ~IsNaN(y) /\ x.k = y.k /\ REq(x.q, y.q) /\ REq(x.e, y.e)

Lt(x, y) ==
    /\ ~IsNaN(x)
    /\ ~IsNaN(y)
    /\ ~Eq(x, y)
    /\ IF IsInf(x) THEN Sgn(x) < 0
       ELSE IF IsInf(y) THEN Sgn(y) > 0
       ELSE RLess(x.q, y.q) \/ (REq(x.q, y.q) /\ RLess(x.e, y.e))

Gt(x, y) == Lt(y, x)
Ne(x, y) == ~Eq(x, y)
Le(x, y) == Lt(x, y) \/ Eq(x, y)
Ge(x, y) == Le(y, x)

\* math.Min: NaN when either argument is NaN, the smaller otherwise.
MathMin(x, y) == IF IsNaN(x) \/ IsNaN(y) THEN NaN ELSE IF Lt(x, y) THEN x ELSE y

\* math.Abs
MathAbs(x) == IF IsNaN(x) THEN NaN ELSE IF Sgn(x) < 0 THEN Neg(x) ELSE x

\* Round: half away from zero, on a rational, giving an integer.
Round(r) ==
    IF r[1] < 0 THEN -((2 * (-r[1]) + r[2]) \div (2 * r[2]))
    ELSE (2 * r[1] + r[2]) \div (2 * r[2])

\* 10^-places in dust units.
DustPerStep(places) == 10 ^ (16 - places)

\* RoundPlaces rounds f to the given number of decimal places.  The rounding
\* acts on the dust part; the rational part is kept (it is exact whenever q
\* is a multiple of 10^-places, and otherwise within half a step, which does
\* not change either comparison the code makes on the result: > 1.0, != 0).
RoundPlaces(f, places) ==
    IF f.k # "fin" THEN f
    ELSE Fin(f.q, RInt(Round(RDiv(f.e, RInt(DustPerStep(places)))) * DustPerStep(places)))

-----------------------------------------------------------------------------
(* Lots (lot.go).                                                          *)

Asset == "Asset"
AssetIncome == "AssetIncome"
TaxableGains == "TaxableGains"

\* The nil *TaxableGainsDetails.
NoDetails ==
    [present |-> FALSE, account |-> "", currency |-> "", originalPurchaseTime |-> 0,
     costBasis |-> Zero, dateOfSale |-> 0, proceeds |-> Zero, soldAmount |-> Zero,
     note |-> <<>>]

NewTaxableGainsDetails(account, currency, originalPurchaseTime, costBasis, dateOfSale, proceeds, soldAmount, note) ==
    [present |-> TRUE, account |-> account, currency |-> currency,
     originalPurchaseTime |-> originalPurchaseTime, costBasis |-> costBasis,
     dateOfSale |-> dateOfSale, proceeds |-> proceeds, soldAmount |-> soldAmount,
     note |-> note]

\* Gains returns the value of the proceeds minus the cost basis.
Gains(d) == Sub(d.proceeds, d.costBasis)

\* A time.Time as a number of days: the dates of the ledger are whole days,
\* numbered from 1, and 0 stands for the zero time.Time, 1 January of year 1,
\* some 736,000 days before them.
DayNumber(t) == IF t = 0 THEN -736424 ELSE t

\* The largest whole number of days a time.Duration holds.
MaxDuration == 106751

\* t.Sub(u), in days: the difference, or the largest or smallest duration
\* when the difference does not fit.
TimeSub(t, u) ==
    IF DayNumber(t) - DayNumber(u) > MaxDuration THEN MaxDuration
    ELSE IF DayNumber(t) - DayNumber(u) < -MaxDuration THEN -MaxDuration
    ELSE DayNumber(t) - DayNumber(u)

\* 24 * time.Hour * 365, in days.
OneYearForCapitalGains == 365

\* IsLongTerm counting a holding of exactly one year as short-term.
IsLongTermAfterOneYear(d) == TimeSub(d.dateOfSale, d.originalPurchaseTime) > OneYearForCapitalGains

\* IsLongTerm returns true if the currency was held for one year or more.
IsLongTerm(d) == TimeSub(d.dateOfSale, d.originalPurchaseTime) >= OneYearForCapitalGains

NewLot(parent, name, lotType, purchaseTime, account, currency, amount, costBasis) ==
    [parent |-> parent, name |-> name, lotType |-> lotType,
     originalPurchaseTime |-> purchaseTime, account |-> account, currency |-> currency,
     amount |-> amount, originalPurchaseAmount |-> amount,
     costBasis |-> costBasis, originalCostBasis |-> costBasis,
     taxableGainsDetails |-> NoDetails, sequenceGenerator |-> 0]

\* nameChild with the parent's counter left as it was.
nameChildWithoutCounting(lot) ==
    [lot |-> lot, name |-> Append(lot.name, lot.sequenceGenerator + 1)]

\* nameChild increments the parent's counter and returns "<parent name>.<counter>":
\* the parent as updated, and the name.
nameChild(lot) ==
    [lot |-> [lot EXCEPT !.sequenceGenerator = lot.sequenceGenerator + 1],
     name |-> Append(lot.name, lot.sequenceGenerator + 1)]

\* NewChildLot giving the new lot a reference to itself, the next lot of the
\* slice, as its parent.
NewChildLotOfItself(ls, parent, lotType, purchaseTime, account, currency, amount, costBasis) ==
    [lots |-> [ls EXCEPT ![parent] = nameChild(ls[parent]).lot],
     lot |-> NewLot(Len(ls) + 1, nameChild(ls[parent]).name, lotType, purchaseTime, account,
                    currency, amount, costBasis)]

\* NewChildLot on the lots slice ls with the parent at index parent: the slice
\* with the parent's counter advanced, and the new lot (not yet appended).
NewChildLot(ls, parent, lotType, purchaseTime, account, currency, amount, costBasis) ==
    LET nc == nameChild(ls[parent])
    IN  [lots |-> [ls EXCEPT ![parent] = nc.lot],
         lot |-> NewLot(parent, nc.name, lotType, purchaseTime, account, currency,
                        amount, costBasis)]

NewTaxableGainsLot(ls, parent, date, soldAmount, costBasis, proceeds, localCurrency, note) ==
    LET c == NewChildLot(ls, parent, TaxableGains, date, "", localCurrency, Zero, Zero)
    IN  [lots |-> c.lots,
         lot |-> [c.lot EXCEPT !.taxableGainsDetails =
                     NewTaxableGainsDetails(ls[parent].account, ls[parent].currency,
                                            ls[parent].originalPurchaseTime,
                                            costBasis, date, proceeds, soldAmount, note)]]

\* 0.999999999999999
ClampThreshold == Fin(ROne, RInt(-10))

\* Remove from a lot of any currency: the currency given is not compared with
\* the lot's.
RemoveOfAnyCurrency(lot, currency, amount) ==
    LET percentageToRemove == Div(amount, lot.amount) IN
    IF Gt(RoundPlaces(percentageToRemove, 12), One)
    THEN [err |-> "InsufficientBalance", lot |-> lot, ret |-> Zero]
    ELSE LET pct == IF Gt(percentageToRemove, ClampThreshold)
                    THEN One ELSE percentageToRemove
             costBasisToRemove == Mul(lot.costBasis, pct)
         IN  [err |-> "none",
              lot |-> [lot EXCEPT !.costBasis = Sub(lot.costBasis, costBasisToRemove),
                                  !.amount = Sub(lot.amount, Mul(lot.amount, pct))],
              ret |-> costBasisToRemove]

\* Remove with the lot's cost basis left as it was: the share is returned but
\* never taken off the lot.
RemoveKeepingCostBasis(lot, currency, amount) ==
    IF lot.currency # currency
    THEN [err |-> "CurrencyMismatch", lot |-> lot, ret |-> Zero]
    ELSE LET percentageToRemove == Div(amount, lot.amount) IN
         IF Gt(RoundPlaces(percentageToRemove, 12), One)
         THEN [err |-> "InsufficientBalance", lot |-> lot, ret |-> Zero]
         ELSE LET pct == IF Gt(percentageToRemove, ClampThreshold)
                         THEN One ELSE percentageToRemove
              IN  [err |-> "none",
                   lot |-> [lot EXCEPT !.amount = Sub(lot.amount, Mul(lot.amount, pct))],
                   ret |-> Mul(lot.costBasis, pct)]

\* Remove removes the given amount from the lot and returns the cost basis
\* represented by that: the panic raised (or "none"), the lot as left, and
\* the value returned.
Remove(lot, currency, amount) ==
    IF lot.currency # currency
    THEN [err |-> "CurrencyMismatch", lot |-> lot, ret |-> Zero]
    ELSE LET percentageToRemove == Div(amount, lot.amount) IN
         IF Gt(RoundPlaces(percentageToRemove, 12), One)
         THEN [err |-> "InsufficientBalance", lot |-> lot, ret |-> Zero]
         ELSE LET pct == IF Gt(percentageToRemove, ClampThreshold)
                         THEN One ELSE percentageToRemove
                  costBasisToRemove == Mul(lot.costBasis, pct)
              IN  [err |-> "none",
                   lot |-> [lot EXCEPT !.costBasis = Sub(lot.costBasis, costBasisToRemove),
                                       !.amount = Sub(lot.amount, Mul(lot.amount, pct))],
                   ret |-> costBasisToRemove]

-----------------------------------------------------------------------------
(* The ledger (ledger.go).  An operation is an operator from the ledger's  *)
(* fields to the fields as the call leaves them, with the panic it raised  *)
(* ("none" when it returns), the value returned and the lot returned.  A   *)
(* panic leaves every mutation made before it in place.                    *)

\* Bound on the number of calls a client makes on one ledger.
MaxOps == 3

localCurrency == "USD"
Currencies == {"USD", "BTC"}
Dates == {1, 2}

\* The price table handed to New: BTC is priced on day 2, at 3, and on day 3,
\* at 6767.31, and on no other day.
historicalPrices == ("BTC" :> (2 :> Num(3) @@ 3 :> Dec(676731, 2)))

R(ls, sg, e, ret, retLot) ==
    [lots |-> ls, sequenceGenerator |-> sg, err |-> e, ret |-> ret, retLot |-> retLot]

\* lookupPrice giving 0, the zero value of a map lookup, for a date without a
\* price.
lookupPriceOfMissingDate(currency, date) ==
    IF currency = localCurrency THEN [err |-> "none", price |-> One]
    ELSE IF currency \notin DOMAIN historicalPrices
    THEN [err |-> "MissingPrice", price |-> Zero]
    ELSE IF date \notin DOMAIN historicalPrices[currency]
    THEN [err |-> "none", price |-> Zero]
    ELSE [err |-> "none", price |-> historicalPrices[currency][date]]

\* lookupPrice looking in the price table first, and giving 1 for the
\* reporting currency when the table has no price for it.
lookupPriceInTableFirst(prices, currency, date) ==
    IF currency \in DOMAIN prices /\ date \in DOMAIN prices[currency]
    THEN [err |-> "none", price |-> prices[currency][date]]
    ELSE IF currency = localCurrency THEN [err |-> "none", price |-> One]
    ELSE [err |-> "MissingPrice", price |-> Zero]

\* lookupPrice on a ledger that New built with the price table prices.
lookupPriceIn(prices, currency, date) ==
    IF currency = localCurrency THEN [err |-> "none", price |-> One]
    ELSE IF currency \notin DOMAIN prices
    THEN [err |-> "MissingPrice", price |-> Zero]
    ELSE IF date \notin DOMAIN prices[currency]
    THEN [err |-> "MissingPrice", price |-> Zero]
    ELSE [err |-> "none", price |-> prices[currency][date]]

lookupPrice(currency, date) == lookupPriceIn(historicalPrices, currency, date)

\* Searches the lots in reverse order and returns the first match; 0 stands
\* for the panic "Couldn't find lot with name".
findLotByName(ls, name) ==
    LET S == {i \in 1..Len(ls) : ls[i].name = name}
    IN  IF S = {} THEN 0 ELSE Max(S)

\* FindLotByName without the check of the lot's currency.
FindLotByNameOfAnyCurrency(ls, name, currency) ==
    LET i == findLotByName(ls, name)
    IN  IF i = 0 THEN [err |-> "LotNotFound", lot |-> 0]
        ELSE [err |-> "none", lot |-> i]

FindLotByName(ls, name, currency) ==
    LET i == findLotByName(ls, name)
    IN  IF i = 0 THEN [err |-> "LotNotFound", lot |-> 0]
        ELSE IF ls[i].currency # currency THEN [err |-> "CurrencyMismatch", lot |-> i]
        ELSE [err |-> "none", lot |-> i]

\* nameLot naming the lot by a counter that all ledgers share, held here by
\* the first ledger.
nameLotFromSharedCounter(sg) == [sequenceGenerator |-> sg + 1, name |-> <<sequenceGenerator + 1>>]

\* nameLot naming the lot by the counter as it was before the increment.
nameLotBeforeIncrement(sg) == [sequenceGenerator |-> sg + 1, name |-> <<sg>>]

\* strconv.Itoa of the incremented counter: a one-component name.
nameLot(sg) == [sequenceGenerator |-> sg + 1, name |-> <<sg + 1>>]

DepositNewMoney(ls, sg, date, account, amountLocalCurrency, costBasis) ==
    With(nameLot(sg), LAMBDA n :
    R(Append(ls, NewLot(0, n.name, Asset, date, account, localCurrency,
                        amountLocalCurrency, costBasis)),
      n.sequenceGenerator, "none", Zero, 0))

Income(ls, sg, date, account, currency, amount, cost) ==
    With(nameLot(sg), LAMBDA n :
    R(Append(ls, NewLot(0, n.name, AssetIncome, date, account, currency, amount, cost)),
      n.sequenceGenerator, "none", Zero, 0))

\* Purchase giving the new lot the cost as its cost basis, in place of the cost
\* basis removed from the funding lot.
PurchaseAtCost(ls, sg, date, fromLotName, toAccount, currency, amount, cost) ==
    With(FindLotByName(ls, fromLotName, localCurrency), LAMBDA f :
    IF f.err # "none" THEN R(ls, sg, f.err, Zero, 0) ELSE
    With(Remove(ls[f.lot], localCurrency, cost), LAMBDA rm :
    IF rm.err # "none" THEN R(ls, sg, rm.err, Zero, 0) ELSE
    With(NewChildLot([ls EXCEPT ![f.lot] = rm.lot], f.lot, Asset, date, toAccount,
                     currency, amount, cost), LAMBDA c :
    R(Append(c.lots, c.lot), sg, "none", Zero, Len(ls) + 1))))

Purchase(ls, sg, date, fromLotName, toAccount, currency, amount, cost) ==
    With(FindLotByName(ls, fromLotName, localCurrency), LAMBDA f :
    IF f.err # "none" THEN R(ls, sg, f.err, Zero, 0) ELSE
    With(Remove(ls[f.lot], localCurrency, cost), LAMBDA rm :
    IF rm.err # "none" THEN R(ls, sg, rm.err, Zero, 0) ELSE
    With(NewChildLot([ls EXCEPT ![f.lot] = rm.lot], f.lot, Asset, date, toAccount,
                     currency, amount, rm.ret), LAMBDA c :
    R(Append(c.lots, c.lot), sg, "none", Zero, Len(ls) + 1))))

\* The spendCapitalGains lot created anew at every Spend that records a gain.
SpendCapitalGainsLotAlwaysNew(ls, name, currency) ==
    [lots |-> Append(ls, NewLot(0, name, Asset, 0, "", currency, Zero, Zero)),
     lot |-> Len(ls) + 1]

\* The lot named name that Spend books its taxable-gains lots under, created
\* (with a nil parent) when no lot carries that name yet: the lots slice and
\* the index of that lot.
SpendCapitalGainsLot(ls, name, currency) ==
    With({i \in 1..Len(ls) : ls[i].name = name}, LAMBDA S :
    IF S = {}
    THEN [lots |-> Append(ls, NewLot(0, name, Asset, 0, "", currency, Zero, Zero)),
          lot |-> Len(ls) + 1]
    ELSE [lots |-> ls, lot |-> Max(S)])

\* Spend looking for the lot before it tests the amount for 0.
SpendLookingUpFirst(ls, sg, date, feeWasFromAccount, fromLotName, soldCurrency, soldAmount, note) ==
    With(FindLotByName(ls, fromLotName, soldCurrency), LAMBDA f :
    IF f.err # "none" THEN R(ls, sg, f.err, Zero, 0) ELSE
    IF Eq(soldAmount, Zero) THEN R(ls, sg, "none", Zero, 0) ELSE
    With(Remove(ls[f.lot], soldCurrency, soldAmount), LAMBDA rm :
    IF rm.err # "none" THEN R(ls, sg, rm.err, Zero, 0) ELSE
    With([ls EXCEPT ![f.lot] = rm.lot], LAMBDA ls1 :
    With(lookupPrice(soldCurrency, date), LAMBDA pr :
    IF pr.err # "none" THEN R(ls1, sg, pr.err, Zero, 0) ELSE
    With(Mul(pr.price, soldAmount), LAMBDA valueInLocalCurrency :
    With(Sub(valueInLocalCurrency, rm.ret), LAMBDA gains :
    IF Ne(gains, Zero)
    THEN With(SpendCapitalGainsLot(ls1, Append(rm.lot.name, 0), rm.lot.currency), LAMBDA g :
         With(NewChildLot(g.lots, g.lot, TaxableGains, date, "", rm.lot.currency,
                          Zero, Zero), LAMBDA c :
         R(Append(c.lots,
                  [c.lot EXCEPT !.taxableGainsDetails =
                      NewTaxableGainsDetails(feeWasFromAccount, rm.lot.currency,
                                             rm.lot.originalPurchaseTime, rm.ret, date,
                                             valueInLocalCurrency, soldAmount, note)]),
           sg, "none", valueInLocalCurrency, 0)))
    ELSE R(ls1, sg, "none", valueInLocalCurrency, 0)))))))

Spend(ls, sg, date, feeWasFromAccount, fromLotName, soldCurrency, soldAmount, note) ==
    IF Eq(soldAmount, Zero) THEN R(ls, sg, "none", Zero, 0) ELSE
    With(FindLotByName(ls, fromLotName, soldCurrency), LAMBDA f :
    IF f.err # "none" THEN R(ls, sg, f.err, Zero, 0) ELSE
    With(Remove(ls[f.lot], soldCurrency, soldAmount), LAMBDA rm :
    IF rm.err # "none" THEN R(ls, sg, rm.err, Zero, 0) ELSE
    With([ls EXCEPT ![f.lot] = rm.lot], LAMBDA ls1 :
    With(lookupPrice(soldCurrency, date), LAMBDA pr :
    IF pr.err # "none" THEN R(ls1, sg, pr.err, Zero, 0) ELSE
    With(Mul(pr.price, soldAmount), LAMBDA valueInLocalCurrency :
    With(Sub(valueInLocalCurrency, rm.ret), LAMBDA gains :
    IF Ne(gains, Zero)
    THEN With(SpendCapitalGainsLot(ls1, Append(rm.lot.name, 0), rm.lot.currency), LAMBDA g :
         With(NewChildLot(g.lots, g.lot, TaxableGains, date, "", rm.lot.currency,
                          Zero, Zero), LAMBDA c :
         R(Append(c.lots,
                  [c.lot EXCEPT !.taxableGainsDetails =
                      NewTaxableGainsDetails(feeWasFromAccount, rm.lot.currency,
                                             rm.lot.originalPurchaseTime, rm.ret, date,
                                             valueInLocalCurrency, soldAmount, note)]),
           sg, "none", valueInLocalCurrency, 0)))
    ELSE R(ls1, sg, "none", valueInLocalCurrency, 0)))))))

\* Fee spending from the lot first, and looking for the lot the fee is applied
\* to afterwards.
FeeSpendingFirst(ls, sg, date, fromLotName, currency, amount, applyFeeToCostBasisOfLot, note) ==
    With(findLotByName(ls, applyFeeToCostBasisOfLot), LAMBDA feeAppliedToLot :
    With(Spend(ls, sg, date, IF feeAppliedToLot = 0 THEN "" ELSE ls[feeAppliedToLot].account,
               fromLotName, currency, amount, <<"fee applied: ", note>>), LAMBDA sp :
    IF sp.err # "none" THEN sp ELSE
    IF feeAppliedToLot = 0 THEN R(sp.lots, sp.sequenceGenerator, "LotNotFound", Zero, 0) ELSE
    R([sp.lots EXCEPT ![feeAppliedToLot].costBasis = Add(@, sp.ret)],
      sp.sequenceGenerator, "none", Zero, 0)))

Fee(ls, sg, date, fromLotName, currency, amount, applyFeeToCostBasisOfLot, note) ==
    With(findLotByName(ls, applyFeeToCostBasisOfLot), LAMBDA feeAppliedToLot :
    IF feeAppliedToLot = 0 THEN R(ls, sg, "LotNotFound", Zero, 0) ELSE
    With(Spend(ls, sg, date, ls[feeAppliedToLot].account, fromLotName, currency,
               amount, <<"fee applied: ", note>>), LAMBDA sp :
    IF sp.err # "none" THEN sp ELSE
    R([sp.lots EXCEPT ![feeAppliedToLot].costBasis = Add(@, sp.ret)],
      sp.sequenceGenerator, "none", Zero, 0)))

\* Transfer with the record of the fee attributed to the destination account.
TransferFeeFromDestinationAccount(ls, sg, date, fromLotName, currency, amountRemoved, feePaidFromAmount, toAccount) ==
    With(FindLotByName(ls, fromLotName, currency), LAMBDA f :
    IF f.err # "none" THEN R(ls, sg, f.err, Zero, 0) ELSE
    With(Remove(ls[f.lot], currency, amountRemoved), LAMBDA rm :
    IF rm.err # "none" THEN R(ls, sg, rm.err, Zero, 0) ELSE
    With(NewChildLot([ls EXCEPT ![f.lot] = rm.lot], f.lot, Asset,
                     rm.lot.originalPurchaseTime, toAccount, currency, amountRemoved,
                     rm.ret), LAMBDA c :
    With(Len(ls) + 1, LAMBDA newLot :
    With(Spend(Append(c.lots, c.lot), sg, date, toAccount, c.lot.name, currency,
               feePaidFromAmount,
               <<"fee for transferring from ", rm.lot.account, " to ", toAccount>>),
         LAMBDA sp :
    IF sp.err # "none" THEN sp ELSE
    R([sp.lots EXCEPT ![newLot].costBasis = Add(@, sp.ret)],
      sp.sequenceGenerator, "none", Zero, newLot))))))

\* Transfer with the value of the fee added to the cost basis of the source lot
\* in place of the new lot.
TransferFeeOnSource(ls, sg, date, fromLotName, currency, amountRemoved, feePaidFromAmount, toAccount) ==
    With(FindLotByName(ls, fromLotName, currency), LAMBDA f :
    IF f.err # "none" THEN R(ls, sg, f.err, Zero, 0) ELSE
    With(Remove(ls[f.lot], currency, amountRemoved), LAMBDA rm :
    IF rm.err # "none" THEN R(ls, sg, rm.err, Zero, 0) ELSE
    With(NewChildLot([ls EXCEPT ![f.lot] = rm.lot], f.lot, Asset,
                     rm.lot.originalPurchaseTime, toAccount, currency, amountRemoved,
                     rm.ret), LAMBDA c :
    With(Spend(Append(c.lots, c.lot), sg, date, rm.lot.account, c.lot.name, currency,
               feePaidFromAmount,
               <<"fee for transferring from ", rm.lot.account, " to ", toAccount>>),
         LAMBDA sp :
    IF sp.err # "none" THEN sp ELSE
    R([sp.lots EXCEPT ![f.lot].costBasis = Add(@, sp.ret)],
      sp.sequenceGenerator, "none", Zero, Len(ls) + 1)))))

\* Transfer with the new lot dated with the date of the transfer.
TransferDatedToday(ls, sg, date, fromLotName, currency, amountRemoved, feePaidFromAmount, toAccount) ==
    With(FindLotByName(ls, fromLotName, currency), LAMBDA f :
    IF f.err # "none" THEN R(ls, sg, f.err, Zero, 0) ELSE
    With(Remove(ls[f.lot], currency, amountRemoved), LAMBDA rm :
    IF rm.err # "none" THEN R(ls, sg, rm.err, Zero, 0) ELSE
    With(NewChildLot([ls EXCEPT ![f.lot] = rm.lot], f.lot, Asset, date, toAccount,
                     currency, amountRemoved, rm.ret), LAMBDA c :
    With(Spend(Append(c.lots, c.lot), sg, date, rm.lot.account, c.lot.name, currency,
               feePaidFromAmount,
               <<"fee for transferring from ", rm.lot.account, " to ", toAccount>>),
         LAMBDA sp :
    IF sp.err # "none" THEN sp ELSE
    R([sp.lots EXCEPT ![Len(ls) + 1].costBasis = Add(@, sp.ret)],
      sp.sequenceGenerator, "none", Zero, Len(ls) + 1)))))

Transfer(ls, sg, date, fromLotName, currency, amountRemoved, feePaidFromAmount, toAccount) ==
    With(FindLotByName(ls, fromLotName, currency), LAMBDA f :
    IF f.err # "none" THEN R(ls, sg, f.err, Zero, 0) ELSE
    With(Remove(ls[f.lot], currency, amountRemoved), LAMBDA rm :
    IF rm.err # "none" THEN R(ls, sg, rm.err, Zero, 0) ELSE
    With(NewChildLot([ls EXCEPT ![f.lot] = rm.lot], f.lot, Asset,
                     rm.lot.originalPurchaseTime, toAccount, currency, amountRemoved,
                     rm.ret), LAMBDA c :
    With(Len(ls) + 1, LAMBDA newLot :
    With(Spend(Append(c.lots, c.lot), sg, date, rm.lot.account, c.lot.name, currency,
               feePaidFromAmount,
               <<"fee for transferring from ", rm.lot.account, " to ", toAccount>>),
         LAMBDA sp :
    IF sp.err # "none" THEN sp ELSE
    R([sp.lots EXCEPT ![newLot].costBasis = Add(@, sp.ret)],
      sp.sequenceGenerator, "none", Zero, newLot))))))

\* ExchangeTaxable recording the taxable gains only when they are not 0, as
\* Spend does.
ExchangeTaxableOmittingZeroGains(ls, sg, date, fromLotName, soldCurrency, soldAmount, lookupSoldCurrencyPriceForTaxableGains, purchasedCurrency, purchasedAmountReceived) ==
    With(FindLotByName(ls, fromLotName, soldCurrency), LAMBDA f :
    IF f.err # "none" THEN R(ls, sg, f.err, Zero, 0) ELSE
    With(Remove(ls[f.lot], soldCurrency, soldAmount), LAMBDA rm :
    IF rm.err # "none" THEN R(ls, sg, rm.err, Zero, 0) ELSE
    With([ls EXCEPT ![f.lot] = rm.lot], LAMBDA ls1 :
    With(IF lookupSoldCurrencyPriceForTaxableGains
         THEN lookupPrice(soldCurrency, date)
         ELSE lookupPrice(purchasedCurrency, date), LAMBDA pr :
    IF pr.err # "none" THEN R(ls1, sg, pr.err, Zero, 0) ELSE
    With(IF lookupSoldCurrencyPriceForTaxableGains
         THEN Mul(pr.price, soldAmount)
         ELSE Mul(pr.price, purchasedAmountReceived),
         LAMBDA purchasedLocalCurrencyEquivalent :
    With(NewChildLot(ls1, f.lot, Asset, date, rm.lot.account, purchasedCurrency,
                     purchasedAmountReceived, purchasedLocalCurrencyEquivalent), LAMBDA c :
    With(NewTaxableGainsLot(Append(c.lots, c.lot), f.lot, date, soldAmount, rm.ret,
                            purchasedLocalCurrencyEquivalent, localCurrency,
                            <<"exchanging ", soldCurrency, " for ", purchasedCurrency>>),
         LAMBDA t :
    IF IsZero(Gains(t.lot.taxableGainsDetails))
    THEN R(Append(c.lots, c.lot), sg, "none", Zero, Len(ls) + 1)
    ELSE R(Append(t.lots, t.lot), sg, "none", Zero, Len(ls) + 1))))))))

ExchangeTaxable(ls, sg, date, fromLotName, soldCurrency, soldAmount, lookupSoldCurrencyPriceForTaxableGains, purchasedCurrency, purchasedAmountReceived) ==
    With(FindLotByName(ls, fromLotName, soldCurrency), LAMBDA f :
    IF f.err # "none" THEN R(ls, sg, f.err, Zero, 0) ELSE
    With(Remove(ls[f.lot], soldCurrency, soldAmount), LAMBDA rm :
    IF rm.err # "none" THEN R(ls, sg, rm.err, Zero, 0) ELSE
    With([ls EXCEPT ![f.lot] = rm.lot], LAMBDA ls1 :
    With(IF lookupSoldCurrencyPriceForTaxableGains
         THEN lookupPrice(soldCurrency, date)
         ELSE lookupPrice(purchasedCurrency, date), LAMBDA pr :
    IF pr.err # "none" THEN R(ls1, sg, pr.err, Zero, 0) ELSE
    With(IF lookupSoldCurrencyPriceForTaxableGains
         THEN Mul(pr.price, soldAmount)
         ELSE Mul(pr.price, purchasedAmountReceived),
         LAMBDA purchasedLocalCurrencyEquivalent :
    With(NewChildLot(ls1, f.lot, Asset, date, rm.lot.account, purchasedCurrency,
                     purchasedAmountReceived, purchasedLocalCurrencyEquivalent), LAMBDA c :
    With(NewTaxableGainsLot(Append(c.lots, c.lot), f.lot, date, soldAmount, rm.ret,
                            purchasedLocalCurrencyEquivalent, localCurrency,
                            <<"exchanging ", soldCurrency, " for ", purchasedCurrency>>),
         LAMBDA t :
    R(Append(t.lots, t.lot), sg, "none", Zero, Len(ls) + 1))))))))

\* ExchangeNonTaxable refusing a lot purchased after the date of the exchange,
\* and taking one purchased before it.
ExchangeNonTaxableOnOrBefore(ls, sg, date, fromLotName, soldCurrency, soldAmount, purchasedCurrency, purchasedAmountReceived) ==
    With(FindLotByName(ls, fromLotName, soldCurrency), LAMBDA f :
    IF f.err # "none" THEN R(ls, sg, f.err, Zero, 0) ELSE
    IF ls[f.lot].originalPurchaseTime > date
    THEN R(ls, sg, "InvalidSameDayExchange", Zero, 0) ELSE
    With(Remove(ls[f.lot], soldCurrency, soldAmount), LAMBDA rm :
    IF rm.err # "none" THEN R(ls, sg, rm.err, Zero, 0) ELSE
    With(NewChildLot([ls EXCEPT ![f.lot] = rm.lot], f.lot, Asset, date, rm.lot.account,
                     purchasedCurrency, purchasedAmountReceived, rm.ret), LAMBDA c :
    R(Append(c.lots, c.lot), sg, "none", Zero, 0))))

ExchangeNonTaxable(ls, sg, date, fromLotName, soldCurrency, soldAmount, purchasedCurrency, purchasedAmountReceived) ==
    With(FindLotByName(ls, fromLotName, soldCurrency), LAMBDA f :
    IF f.err # "none" THEN R(ls, sg, f.err, Zero, 0) ELSE
    IF ~(ls[f.lot].originalPurchaseTime = date) /\ ~(ls[f.lot].originalPurchaseTime > date)
    THEN R(ls, sg, "InvalidSameDayExchange", Zero, 0) ELSE
    With(Remove(ls[f.lot], soldCurrency, soldAmount), LAMBDA rm :
    IF rm.err # "none" THEN R(ls, sg, rm.err, Zero, 0) ELSE
    With(NewChildLot([ls EXCEPT ![f.lot] = rm.lot], f.lot, Asset, date, rm.lot.account,
                     purchasedCurrency, purchasedAmountReceived, rm.ret), LAMBDA c :
    R(Append(c.lots, c.lot), sg, "none", Zero, 0))))

\* The pass of the loop of MergeIdenticalLots without the comparison of the
\* accounts.
MergeStepInAnyAccount(ls, purchaseDate, currency, lotNames, i, acc) ==
    With(FindLotByName(ls, lotNames[i], currency), LAMBDA f :
    IF f.err # "none" THEN [lots |-> ls, err |-> f.err, acc |-> acc] ELSE
    With(ls[f.lot], LAMBDA lot :
    With(Div(lot.costBasis, lot.amount), LAMBDA lotPricePerUnit :
    IF lot.originalPurchaseTime # purchaseDate
    THEN [lots |-> ls, err |-> "IdentityMismatch", acc |-> acc] ELSE
    IF i > 1 /\ Ne(RoundPlaces(Sub(acc.pricePerUnit, lotPricePerUnit), 11), Zero)
    THEN [lots |-> ls, err |-> "IdentityMismatch", acc |-> acc] ELSE
    With(Remove(lot, currency, lot.amount), LAMBDA rm :
    IF rm.err # "none" THEN [lots |-> ls, err |-> rm.err, acc |-> acc] ELSE
    [lots |-> [ls EXCEPT ![f.lot] = rm.lot], err |-> "none",
     acc |-> [totalAmount |-> Add(acc.totalAmount, lot.amount),
              totalCostBasis |-> Add(acc.totalCostBasis, rm.ret),
              pricePerUnit |-> IF i = 1 THEN lotPricePerUnit ELSE acc.pricePerUnit,
              account |-> IF i = 1 THEN lot.account ELSE acc.account]]))))

\* One pass of the loop of MergeIdenticalLots, on the i-th name (the first is
\* 1), with the running totals and the price and account of the first lot in
\* acc: the lots slice, the panic raised and the totals as the pass leaves them.
MergeStep(ls, purchaseDate, currency, lotNames, i, acc) ==
    With(FindLotByName(ls, lotNames[i], currency), LAMBDA f :
    IF f.err # "none" THEN [lots |-> ls, err |-> f.err, acc |-> acc] ELSE
    With(ls[f.lot], LAMBDA lot :
    With(Div(lot.costBasis, lot.amount), LAMBDA lotPricePerUnit :
    IF lot.originalPurchaseTime # purchaseDate
    THEN [lots |-> ls, err |-> "IdentityMismatch", acc |-> acc] ELSE
    IF i > 1 /\ Ne(RoundPlaces(Sub(acc.pricePerUnit, lotPricePerUnit), 11), Zero)
    THEN [lots |-> ls, err |-> "IdentityMismatch", acc |-> acc] ELSE
    IF i > 1 /\ acc.account # lot.account
    THEN [lots |-> ls, err |-> "IdentityMismatch", acc |-> acc] ELSE
    With(Remove(lot, currency, lot.amount), LAMBDA rm :
    IF rm.err # "none" THEN [lots |-> ls, err |-> rm.err, acc |-> acc] ELSE
    [lots |-> [ls EXCEPT ![f.lot] = rm.lot], err |-> "none",
     acc |-> [totalAmount |-> Add(acc.totalAmount, lot.amount),
              totalCostBasis |-> Add(acc.totalCostBasis, rm.ret),
              pricePerUnit |-> IF i = 1 THEN lotPricePerUnit ELSE acc.pricePerUnit,
              account |-> IF i = 1 THEN lot.account ELSE acc.account]]))))

\* The loop of MergeIdenticalLots over the names from the i-th on, starting
\* from the outcome m of the passes before.
RECURSIVE MergeLoop(_, _, _, _, _)
MergeLoop(m, purchaseDate, currency, lotNames, i) ==
    IF m.err # "none" \/ i > Len(lotNames) THEN m
    ELSE MergeLoop(MergeStep(m.lots, purchaseDate, currency, lotNames, i, m.acc),
                   purchaseDate, currency, lotNames, i + 1)

\* MergeIdenticalLots taking the lots it has merged out of the lots slice.
MergeIdenticalLotsDroppingMerged(ls, sg, purchaseDate, currency, lotNames) ==
    With(MergeLoop([lots |-> ls, err |-> "none",
                    acc |-> [totalAmount |-> Zero, totalCostBasis |-> Zero,
                             pricePerUnit |-> Zero, account |-> ""]],
                   purchaseDate, currency, lotNames, 1), LAMBDA m :
    IF m.err # "none" THEN R(m.lots, sg, m.err, Zero, 0) ELSE
    With(nameLot(sg), LAMBDA n :
    With(SelectSeq(m.lots, LAMBDA l : \A k \in 1..Len(lotNames) : l.name # lotNames[k]),
         LAMBDA kept :
    R(Append(kept, NewLot(0, n.name, Asset, purchaseDate, m.acc.account, currency,
                          m.acc.totalAmount, m.acc.totalCostBasis)),
      n.sequenceGenerator, "none", Zero, Len(kept) + 1))))

MergeIdenticalLots(ls, sg, purchaseDate, currency, lotNames) ==
    With(MergeLoop([lots |-> ls, err |-> "none",
                    acc |-> [totalAmount |-> Zero, totalCostBasis |-> Zero,
                             pricePerUnit |-> Zero, account |-> ""]],
                   purchaseDate, currency, lotNames, 1), LAMBDA m :
    IF m.err # "none" THEN R(m.lots, sg, m.err, Zero, 0) ELSE
    With(nameLot(sg), LAMBDA n :
    R(Append(m.lots, NewLot(0, n.name, Asset, purchaseDate, m.acc.account, currency,
                            m.acc.totalAmount, m.acc.totalCostBasis)),
      n.sequenceGenerator, "none", Zero, Len(m.lots) + 1)))

\* The sum TotalInvestment has accumulated over the first n lots of ls.
RECURSIVE TotalInvestmentUpTo(_, _)
TotalInvestmentUpTo(ls, n) ==
    IF n = 0 THEN Zero
    ELSE IF ls[n].parent = 0 /\ ls[n].currency = localCurrency
    THEN Add(TotalInvestmentUpTo(ls, n - 1), ls[n].originalCostBasis)
    ELSE TotalInvestmentUpTo(ls, n - 1)

\* TotalInvestment looks at all of the root lots in the reporting currency,
\* summing up their original cost basis.
TotalInvestment(ls) == TotalInvestmentUpTo(ls, Len(ls))

\* One pass of the loop of TransferMultipleLots, on the i-th name, with the
\* ledger and the amount remaining to transfer in m.
TransferMultipleLotsStep(m, date, fromLotNames, currency, totalAmountToMove, feePaidFromAmount, toAccount, i) ==
    With(FindLotByName(m.lots, fromLotNames[i], currency), LAMBDA f :
    IF f.err # "none" THEN [m EXCEPT !.err = f.err] ELSE
    IF Le(m.remaining, Zero) THEN [m EXCEPT !.err = "OverCommitted"] ELSE
    With(MathMin(m.lots[f.lot].amount, m.remaining), LAMBDA amountToRemoveFromLot :
    With(Mul(feePaidFromAmount, Div(amountToRemoveFromLot, totalAmountToMove)), LAMBDA feePortion :
    With(Transfer(m.lots, m.sequenceGenerator, date, m.lots[f.lot].name, currency,
                  amountToRemoveFromLot, feePortion, toAccount), LAMBDA t :
    [lots |-> t.lots, sequenceGenerator |-> t.sequenceGenerator, err |-> t.err,
     remaining |-> Sub(m.remaining, amountToRemoveFromLot)]))))

RECURSIVE TransferMultipleLotsLoop(_, _, _, _, _, _, _, _)
TransferMultipleLotsLoop(m, date, fromLotNames, currency, totalAmountToMove, feePaidFromAmount, toAccount, i) ==
    IF m.err # "none" \/ i > Len(fromLotNames) THEN m
    ELSE TransferMultipleLotsLoop(
             TransferMultipleLotsStep(m, date, fromLotNames, currency, totalAmountToMove,
                                      feePaidFromAmount, toAccount, i),
             date, fromLotNames, currency, totalAmountToMove, feePaidFromAmount, toAccount, i + 1)

\* TransferMultipleLots removes amounts from the lots named, in order, and
\* transfers them to toAccount, spreading the fee over the lots in proportion
\* to the amount removed from each.  "UnderCommitted" stands for the panic
\* "Insufficient funds in the lots", "OverCommitted" for "There's nothing left
\* to remove from this lot" and "Too much funds transferred!".
TransferMultipleLots(ls, sg, date, fromLotNames, currency, totalAmountToMove, feePaidFromAmount, toAccount) ==
    With(TransferMultipleLotsLoop([lots |-> ls, sequenceGenerator |-> sg, err |-> "none",
                                   remaining |-> totalAmountToMove],
                                  date, fromLotNames, currency, totalAmountToMove,
                                  feePaidFromAmount, toAccount, 1), LAMBDA m :
    IF m.err # "none" THEN R(m.lots, m.sequenceGenerator, m.err, Zero, 0) ELSE
    IF Gt(m.remaining, Zero) THEN R(m.lots, m.sequenceGenerator, "UnderCommitted", Zero, 0) ELSE
    IF Lt(m.remaining, Zero) THEN R(m.lots, m.sequenceGenerator, "OverCommitted", Zero, 0) ELSE
    R(m.lots, m.sequenceGenerator, "none", Zero, 0))

\* The first loop of TransferMultipleLotsFully from the i-th name on: the
\* indices of the lots found and the sum of their amounts, or the panic of
\* FindLotByName.
RECURSIVE FindLotsFully(_, _, _, _, _)
FindLotsFully(ls, fromLotNames, currency, i, acc) ==
    IF i > Len(fromLotNames) THEN acc ELSE
    With(FindLotByName(ls, fromLotNames[i], currency), LAMBDA f :
    IF f.err # "none" THEN [acc EXCEPT !.err = f.err] ELSE
    FindLotsFully(ls, fromLotNames, currency, i + 1,
                  [err |-> "none", lots |-> Append(acc.lots, f.lot),
                   lotsTotal |-> Add(acc.lotsTotal, ls[f.lot].amount)]))

\* The second loop of TransferMultipleLotsFully from the i-th lot found on.
RECURSIVE TransferFullyLoop(_, _, _, _, _, _, _, _)
TransferFullyLoop(r, date, found, currency, amountRemoved, feePaidFromAmount, toAccount, i) ==
    IF r.err # "none" \/ i > Len(found) THEN r ELSE
    With(r.lots[found[i]], LAMBDA lot :
    TransferFullyLoop(
        Transfer(r.lots, r.sequenceGenerator, date, lot.name, currency, lot.amount,
                 Mul(feePaidFromAmount, Div(lot.amount, amountRemoved)), toAccount),
        date, found, currency, amountRemoved, feePaidFromAmount, toAccount, i + 1))

\* 0.0000000000001
FullyTolerance == Fin(RZero, RInt(1000))

\* TransferMultipleLotsFully removes all amounts from the lots named and
\* transfers them to toAccount, spreading the fee over the lots in proportion.
\* "UnderCommitted" stands for the panic "Amount to remove does not match the
\* amount in the lots".
TransferMultipleLotsFully(ls, sg, date, fromLotNames, currency, amountRemoved, feePaidFromAmount, toAccount) ==
    With(FindLotsFully(ls, fromLotNames, currency, 1,
                       [err |-> "none", lots |-> <<>>, lotsTotal |-> Zero]), LAMBDA fl :
    IF fl.err # "none" THEN R(ls, sg, fl.err, Zero, 0) ELSE
    IF Gt(MathAbs(Sub(fl.lotsTotal, amountRemoved)), FullyTolerance)
    THEN R(ls, sg, "UnderCommitted", Zero, 0) ELSE
    With(TransferFullyLoop(R(ls, sg, "none", Zero, 0), date, fl.lots, currency,
                           amountRemoved, feePaidFromAmount, toAccount, 1), LAMBDA r :
    R(r.lots, r.sequenceGenerator, r.err, Zero, 0)))

\* One pass of the loop of ExchangeTaxableMultipleLots, on the i-th name.
ExchangeTaxableMultipleLotsStep(m, date, fromLotNames, soldCurrency, totalAmountToSell, lookupSoldCurrencyPriceForTaxableGains, purchasedCurrency, totalAmountToPurchase, i) ==
    With(FindLotByName(m.lots, fromLotNames[i], soldCurrency), LAMBDA f :
    IF f.err # "none" THEN [m EXCEPT !.err = f.err] ELSE
    IF Le(m.remainingToSell, Zero) THEN [m EXCEPT !.err = "OverCommitted"] ELSE
    IF Le(m.remainingToPurchase, Zero) THEN [m EXCEPT !.err = "OverCommitted"] ELSE
    With(MathMin(m.lots[f.lot].amount, m.remainingToSell), LAMBDA amountToSellFromLot :
    With(Mul(totalAmountToPurchase, Div(amountToSellFromLot, totalAmountToSell)), LAMBDA purchasePortion :
    With(ExchangeTaxable(m.lots, m.sequenceGenerator, date, m.lots[f.lot].name, soldCurrency,
                         amountToSellFromLot, lookupSoldCurrencyPriceForTaxableGains,
                         purchasedCurrency, purchasePortion), LAMBDA t :
    [lots |-> t.lots, sequenceGenerator |-> t.sequenceGenerator, err |-> t.err,
     remainingToSell |-> Sub(m.remainingToSell, amountToSellFromLot),
     remainingToPurchase |-> Sub(m.remainingToPurchase, purchasePortion)]))))

RECURSIVE ExchangeTaxableMultipleLotsLoop(_, _, _, _, _, _, _, _, _)
ExchangeTaxableMultipleLotsLoop(m, date, fromLotNames, soldCurrency, totalAmountToSell, lookupSoldCurrencyPriceForTaxableGains, purchasedCurrency, totalAmountToPurchase, i) ==
    IF m.err # "none" \/ i > Len(fromLotNames) THEN m
    ELSE ExchangeTaxableMultipleLotsLoop(
             ExchangeTaxableMultipleLotsStep(m, date, fromLotNames, soldCurrency,
                                             totalAmountToSell,
                                             lookupSoldCurrencyPriceForTaxableGains,
                                             purchasedCurrency, totalAmountToPurchase, i),
             date, fromLotNames, soldCurrency, totalAmountToSell,
             lookupSoldCurrencyPriceForTaxableGains, purchasedCurrency,
             totalAmountToPurchase, i + 1)

\* ExchangeTaxableMultipleLots returning without comparing what remains to
\* sell and to purchase with 0.
ExchangeTaxableMultipleLotsUnreconciled(ls, sg, date, fromLotNames, soldCurrency, totalAmountToSell, lookupSoldCurrencyPriceForTaxableGains, purchasedCurrency, totalAmountToPurchase) ==
    With(ExchangeTaxableMultipleLotsLoop(
             [lots |-> ls, sequenceGenerator |-> sg, err |-> "none",
              remainingToSell |-> totalAmountToSell,
              remainingToPurchase |-> totalAmountToPurchase],
             date, fromLotNames, soldCurrency, totalAmountToSell,
             lookupSoldCurrencyPriceForTaxableGains, purchasedCurrency,
             totalAmountToPurchase, 1), LAMBDA m :
    R(m.lots, m.sequenceGenerator, m.err, Zero, 0))

\* ExchangeTaxableMultipleLots records an exchange of one currency for
\* another across the lots named, by ExchangeTaxable on each.  "UnderCommitted"
\* stands for the panic "Incorrect funds sold/purchased", "OverCommitted" for
\* "There's nothing left to sell from this lot" and "There's nothing left to
\* purchase".
ExchangeTaxableMultipleLots(ls, sg, date, fromLotNames, soldCurrency, totalAmountToSell, lookupSoldCurrencyPriceForTaxableGains, purchasedCurrency, totalAmountToPurchase) ==
    With(ExchangeTaxableMultipleLotsLoop(
             [lots |-> ls, sequenceGenerator |-> sg, err |-> "none",
              remainingToSell |-> totalAmountToSell,
              remainingToPurchase |-> totalAmountToPurchase],
             date, fromLotNames, soldCurrency, totalAmountToSell,
             lookupSoldCurrencyPriceForTaxableGains, purchasedCurrency,
             totalAmountToPurchase, 1), LAMBDA m :
    IF m.err # "none" THEN R(m.lots, m.sequenceGenerator, m.err, Zero, 0) ELSE
    IF Ne(RoundPlaces(m.remainingToSell, 11), Zero) \/ Ne(RoundPlaces(m.remainingToPurchase, 11), Zero)
    THEN R(m.lots, m.sequenceGenerator, "UnderCommitted", Zero, 0) ELSE
    R(m.lots, m.sequenceGenerator, "none", Zero, 0))

-----------------------------------------------------------------------------
(* The state machine: a client issuing ledger calls one after the other.   *)
(* lots and sequenceGenerator are the Ledger's mutable fields; err is the  *)
(* panic that ended the run ("none" while it goes on); last is the last    *)
(* call with its arguments and results, prev the fields before that call,  *)
(* steps the number of calls made.                                         *)

\* Amounts, costs and fees a client passes.
Amounts == {Num(0), Num(1), Num(2)}
Positive == {Num(1), Num(2)}
\* A fee of 0 has no date-dependent effect; a fee of 1 is valued on either day.
FeesOnDates == {<<Num(0), 2>>, <<Num(1), 1>>, <<Num(1), 2>>}
\* A lot name no lot carries.
UnknownName == <<9>>
LotNames == {lots[i].name : i \in 1..Len(lots)}
Names == LotNames \cup {UnknownName}
\* A lot's name with the currency it holds: what a client that keeps track of
\* its lots passes as (fromLotName, currency).
Matching == {<<lots[i].name, lots[i].currency>> : i \in 1..Len(lots)}
\* The first lot's name with a currency that lot does not hold, and a name no
\* lot carries.
Mismatching ==
    (IF lots = <<>> THEN {}
     ELSE {<<lots[1].name, c>> : c \in Currencies \ {lots[1].currency}})
        \cup {<<UnknownName, localCurrency>>}

NoCall ==
    [op |-> "New", date |-> 0, from |-> <<>>, target |-> <<>>, account |-> "",
     currency |-> "", currency2 |-> "", amount |-> Zero, amount2 |-> Zero,
     flag |-> FALSE, names |-> <<>>, ret |-> Zero, retLot |-> 0,
     prices |-> historicalPrices]

\* A second ledger, as New returns it: no lot, and no call replayed on it;
\* inUse tells whether the client repeats its calls on it.
NewLedger ==
    [lots |-> <<>>, sequenceGenerator |-> 0, err |-> "none", done |-> 0, inUse |-> FALSE]

\* The effect of one call with result r on the state.
Apply(r, call) ==
    /\ err = "none"
    /\ steps < MaxOps
    /\ replica.inUse => replica.done = steps
    /\ lots' = r.lots
    /\ sequenceGenerator' = r.sequenceGenerator
    /\ err' = r.err
    /\ last' = [call EXCEPT !.ret = r.ret, !.retLot = r.retLot]
    /\ prev' = [lots |-> lots, sequenceGenerator |-> sequenceGenerator]
    /\ steps' = steps + 1
    /\ UNCHANGED replica

Init ==
    /\ lots = <<>>
    /\ sequenceGenerator = 0
    /\ err = "none"
    /\ last = NoCall
    /\ prev = [lots |-> <<>>, sequenceGenerator |-> 0]
    /\ steps = 0
    /\ replica = NewLedger

DoDepositNewMoney ==
    \E date \in Dates :
        Apply(DepositNewMoney(lots, sequenceGenerator, date, "Bitfinex", Num(2), Num(2)),
              [NoCall EXCEPT !.op = "DepositNewMoney", !.date = date,
                             !.account = "Bitfinex", !.amount = Num(2),
                             !.amount2 = Num(2)])

DoIncome ==
    \E date \in Dates :
        Apply(Income(lots, sequenceGenerator, date, "Bitfinex", "BTC", Num(2), Num(3)),
              [NoCall EXCEPT !.op = "Income", !.date = date, !.account = "Bitfinex",
                             !.currency = "BTC", !.amount = Num(2), !.amount2 = Num(3)])

DoPurchase ==
    \E fromLotName \in Names, cost \in Positive :
        Apply(Purchase(lots, sequenceGenerator, 2, fromLotName, "Coinbase", "BTC",
                       Num(1), cost),
              [NoCall EXCEPT !.op = "Purchase", !.date = 2, !.from = fromLotName,
                             !.account = "Coinbase", !.currency = "BTC",
                             !.amount = Num(1), !.amount2 = cost])

FeeCall(date, fromLotName, currency, amount, applyFeeToCostBasisOfLot) ==
    Apply(Fee(lots, sequenceGenerator, date, fromLotName, currency, amount,
              applyFeeToCostBasisOfLot, "note"),
          [NoCall EXCEPT !.op = "Fee", !.date = date, !.from = fromLotName,
                         !.currency = currency, !.amount = amount,
                         !.target = applyFeeToCostBasisOfLot])

DoFee ==
    \/ \E src \in Matching, fd \in FeesOnDates, target \in Names :
           FeeCall(fd[2], src[1], src[2], fd[1], target)
    \/ \E src \in Mismatching, target \in LotNames :
           FeeCall(2, src[1], src[2], Num(1), target)

SpendCall(date, feeWasFromAccount, fromLotName, soldCurrency, soldAmount) ==
    Apply(Spend(lots, sequenceGenerator, date, feeWasFromAccount, fromLotName,
                soldCurrency, soldAmount, "note"),
          [NoCall EXCEPT !.op = "Spend", !.date = date, !.account = feeWasFromAccount,
                         !.from = fromLotName, !.currency = soldCurrency,
                         !.amount = soldAmount])

DoSpend ==
    \/ \E src \in Matching, fd \in FeesOnDates :
           SpendCall(fd[2], "Bitfinex", src[1], src[2], fd[1])
    \/ \E src \in Mismatching, soldAmount \in {Num(0), Num(1)} :
           SpendCall(2, "Bitfinex", src[1], src[2], soldAmount)

TransferCall(date, fromLotName, currency, amountRemoved, feePaidFromAmount, toAccount) ==
    Apply(Transfer(lots, sequenceGenerator, date, fromLotName, currency, amountRemoved,
                   feePaidFromAmount, toAccount),
          [NoCall EXCEPT !.op = "Transfer", !.date = date, !.from = fromLotName,
                         !.currency = currency, !.amount = amountRemoved,
                         !.amount2 = feePaidFromAmount, !.account = toAccount])

DoTransfer ==
    \/ \E src \in Matching, amountRemoved \in Amounts, fd \in FeesOnDates :
           TransferCall(fd[2], src[1], src[2], amountRemoved, fd[1], "Coinbase")
    \/ \E src \in Mismatching :
           TransferCall(2, src[1], src[2], Num(1), Num(0), "Coinbase")

ExchangeTaxableCall(date, fromLotName, soldCurrency, soldAmount, flag) ==
    Apply(ExchangeTaxable(lots, sequenceGenerator, date, fromLotName, soldCurrency,
                          soldAmount, flag, "BTC", Num(1)),
          [NoCall EXCEPT !.op = "ExchangeTaxable", !.date = date, !.from = fromLotName,
                         !.currency = soldCurrency, !.amount = soldAmount,
                         !.flag = flag, !.currency2 = "BTC", !.amount2 = Num(1)])

DoExchangeTaxable ==
    \/ \E src \in Matching, date \in Dates, flag \in BOOLEAN :
           ExchangeTaxableCall(date, src[1], src[2], Num(1), flag)
    \/ \E src \in Mismatching :
           ExchangeTaxableCall(2, src[1], src[2], Num(1), TRUE)

ExchangeNonTaxableCall(date, fromLotName, soldCurrency, soldAmount) ==
    Apply(ExchangeNonTaxable(lots, sequenceGenerator, date, fromLotName, soldCurrency,
                             soldAmount, "BTC", Num(1)),
          [NoCall EXCEPT !.op = "ExchangeNonTaxable", !.date = date,
                         !.from = fromLotName, !.currency = soldCurrency,
                         !.amount = soldAmount, !.currency2 = "BTC",
                         !.amount2 = Num(1)])

DoExchangeNonTaxable ==
    \/ \E src \in Matching, date \in Dates, soldAmount \in Amounts :
           ExchangeNonTaxableCall(date, src[1], src[2], soldAmount)
    \/ \E src \in Mismatching, date \in Dates :
           ExchangeNonTaxableCall(date, src[1], src[2], Num(1))

\* The lists of one or two names a client hands to MergeIdenticalLots, each
\* with the currency of the first lot named.
MergeArgs ==
    {<<src[2], <<src[1]>> >> : src \in Matching}
        \cup {<<src[2], <<src[1], other>> >> : src \in Matching, other \in Names}

DoMergeIdenticalLots ==
    \/ \E purchaseDate \in Dates, args \in MergeArgs :
           Apply(MergeIdenticalLots(lots, sequenceGenerator, purchaseDate, args[1], args[2]),
                 [NoCall EXCEPT !.op = "MergeIdenticalLots", !.date = purchaseDate,
                                !.currency = args[1], !.names = args[2]])
    \/ \E src \in Mismatching :
           Apply(MergeIdenticalLots(lots, sequenceGenerator, 2, src[2], <<src[1]>>),
                 [NoCall EXCEPT !.op = "MergeIdenticalLots", !.date = 2,
                                !.currency = src[2], !.names = <<src[1]>>])

Next ==
    \/ DoDepositNewMoney
    \/ DoIncome
    \/ DoPurchase
    \/ DoSpend
    \/ DoFee
    \/ DoTransfer
    \/ DoExchangeTaxable
    \/ DoExchangeNonTaxable
    \/ DoMergeIdenticalLots

Spec == Init /\ [][Next]_vars

-----------------------------------------------------------------------------
(* Lot.Remove and Transfer without a fee on amounts a float64 tells apart   *)
(* from a whole number by a few units in the last place: a ledger holding   *)
(* one deposited lot, and a client that removes from a lot directly or      *)
(* transfers from it.                                                       *)

\* 0, 1/2, 1, 2, and 1 less 20, less 5, plus 3 and plus 6000 dust units.
DustAmounts ==
    {Num(0), Fin(Rat(1, 2), RZero), Num(1), Num(2),
     NumDust(1, -20), NumDust(1, -5), NumDust(1, 3), NumDust(1, 6000)}

InitOneLot ==
    /\ \E amount \in {Num(1), Num(2)}, costBasis \in {Num(0), Num(3)} :
           lots = <<NewLot(0, <<1>>, Asset, 1, "Bitfinex", localCurrency, amount, costBasis)>>
    /\ sequenceGenerator = 1
    /\ err = "none"
    /\ last = NoCall
    /\ prev = [lots |-> <<>>, sequenceGenerator |-> 0]
    /\ steps = 0
    /\ replica = NewLedger

\* lot.Remove(currency, amount) on the lot at index i.
RemoveCall(i, currency, amount) ==
    With(Remove(lots[i], currency, amount), LAMBDA rm :
    Apply(R([lots EXCEPT ![i] = rm.lot], sequenceGenerator, rm.err, rm.ret, i),
          [NoCall EXCEPT !.op = "Remove", !.from = lots[i].name,
                         !.currency = currency, !.amount = amount]))

DoRemove ==
    \/ \E i \in 1..Len(lots), amount \in DustAmounts :
           RemoveCall(i, lots[i].currency, amount)
    \/ \E i \in 1..Len(lots) :
           RemoveCall(i, "BTC", Num(1))

DoTransferNoFee ==
    \E src \in Matching, amountRemoved \in DustAmounts :
        TransferCall(2, src[1], src[2], amountRemoved, Num(0), "Coinbase")

NextOneLot ==
    \/ DoRemove
    \/ DoTransferNoFee

SpecOneLot == InitOneLot /\ [][NextOneLot]_vars

-----------------------------------------------------------------------------
(* Purchase at a cost a float64 tells apart from a whole number by a few   *)
(* units in the last place: a ledger holding one deposited lot, and a      *)
(* client that purchases with the lots in the reporting currency.          *)

DoPurchaseDust ==
    \E src \in Matching, cost \in {Fin(Rat(1, 2), RZero), NumDust(1, -20), NumDust(1, -5), Num(1), NumDust(1, 3)} :
        /\ src[2] = localCurrency
        /\ Apply(Purchase(lots, sequenceGenerator, 2, src[1], "Coinbase", "BTC", Num(1), cost),
                 [NoCall EXCEPT !.op = "Purchase", !.date = 2, !.from = src[1],
                                !.account = "Coinbase", !.currency = "BTC",
                                !.amount = Num(1), !.amount2 = cost])

NextPurchase == DoPurchaseDust

SpecPurchase == InitOneLot /\ [][NextPurchase]_vars

-----------------------------------------------------------------------------
(* Transfer with a fee a float64 tells apart from the amount transferred by *)
(* a few units in the last place: a ledger holding one lot of income in     *)
(* BTC, and a client that transfers from its lots on a day with a price.    *)

\* Fees of 1/2, of 1 less 20 and less 5 dust units, and of 1.
DustFees == {Fin(Rat(1, 2), RZero), NumDust(1, -20), NumDust(1, -5), Num(1)}

InitIncomeLot ==
    /\ \E amount \in {Num(1), Num(2)}, cost \in {Num(0), Num(3)} :
           /\ lots = Income(<<>>, 0, 1, "Bitfinex", "BTC", amount, cost).lots
           /\ sequenceGenerator = Income(<<>>, 0, 1, "Bitfinex", "BTC", amount, cost).sequenceGenerator
    /\ err = "none"
    /\ last = NoCall
    /\ prev = [lots |-> <<>>, sequenceGenerator |-> 0]
    /\ steps = 0
    /\ replica = NewLedger

DoTransferWithFee ==
    \E src \in Matching, amountRemoved \in {Fin(Rat(1, 2), RZero), NumDust(1, -5), Num(1)}, feePaidFromAmount \in DustFees :
        TransferCall(2, src[1], src[2], amountRemoved, feePaidFromAmount, "Coinbase")

NextFee == DoTransferWithFee

SpecFee == InitIncomeLot /\ [][NextFee]_vars

-----------------------------------------------------------------------------
(* The calls of simpleScenario, with its amounts: a deposit of 960 with    *)
(* cost basis 1085, a purchase of 0.83976678 BTC for 960 and a transfer of *)
(* 0.8 BTC with a fee of 0.001 BTC, and variations on them; the transfer   *)
(* is made on day 1, which has no price, or on day 3, priced at 6767.31.   *)

DoScenarioDeposit ==
    \E costBasis \in {Num(960), Num(1085)} :
        Apply(DepositNewMoney(lots, sequenceGenerator, 1, "Bitfinex", Num(960), costBasis),
              [NoCall EXCEPT !.op = "DepositNewMoney", !.date = 1, !.account = "Bitfinex",
                             !.amount = Num(960), !.amount2 = costBasis])

DoScenarioPurchase ==
    \E fromLotName \in LotNames, cost \in {Num(480), Num(960)} :
        Apply(Purchase(lots, sequenceGenerator, 1, fromLotName, "Bitfinex", "BTC",
                       Dec(83976678, 8), cost),
              [NoCall EXCEPT !.op = "Purchase", !.date = 1, !.from = fromLotName,
                             !.account = "Bitfinex", !.currency = "BTC",
                             !.amount = Dec(83976678, 8), !.amount2 = cost])

DoScenarioTransfer ==
    \E src \in Matching, date \in {1, 3}, amountRemoved \in {Dec(8, 1)}, feePaidFromAmount \in {Zero, Dec(1, 3)} :
        TransferCall(date, src[1], src[2], amountRemoved, feePaidFromAmount, "Coinbase")

NextScenario ==
    \/ DoScenarioDeposit
    \/ DoScenarioPurchase
    \/ DoScenarioTransfer

SpecScenario == Init /\ [][NextScenario]_vars

\* Merging lots whose prices per unit differ by dust: deposits of 2 with a
\* cost basis of 2, of 2 and 3 dust, and of 3, in either account on either
\* day, and MergeIdenticalLots on one or two names.
DepositCostBases == {Num(2), NumDust(2, 3), Num(3)}

DoDepositDust ==
    \E date \in Dates, account \in {"Bitfinex", "Coinbase"}, costBasis \in DepositCostBases :
        Apply(DepositNewMoney(lots, sequenceGenerator, date, account, Num(2), costBasis),
              [NoCall EXCEPT !.op = "DepositNewMoney", !.date = date,
                             !.account = account, !.amount = Num(2),
                             !.amount2 = costBasis])

DoMergeDust ==
    \E purchaseDate \in Dates, args \in MergeArgs :
        Apply(MergeIdenticalLots(lots, sequenceGenerator, purchaseDate, args[1], args[2]),
              [NoCall EXCEPT !.op = "MergeIdenticalLots", !.date = purchaseDate,
                             !.currency = args[1], !.names = args[2]])

NextMerge ==
    \/ DoDepositDust
    \/ DoMergeDust

SpecMerge == Init /\ [][NextMerge]_vars

-----------------------------------------------------------------------------
(* The operations on several lots: a ledger of deposits of 1 and of 2, and *)
(* a client that transfers or exchanges a total across one or two lots it  *)
(* names, in the reporting currency.                                       *)

\* The totals a client gives: 1, 2, 3, and 3 and 3 dust units.
Totals == {Num(1), Num(2), Num(3), NumDust(3, 3)}

\* The names of the lots that hold, or have held, the reporting currency.
FundingNames ==
    {lots[i].name : i \in {j \in 1..Len(lots) : /\ lots[j].currency = localCurrency
                                                /\ lots[j].lotType = Asset
                                                /\ lots[j].name[Len(lots[j].name)] # 0}}

\* The lists of one or two such names a client gives.
NameLists == {<<a>> : a \in FundingNames} \cup {<<a, b>> : a \in FundingNames, b \in FundingNames}

DoDepositMulti ==
    \E amountLocalCurrency \in Positive :
        Apply(DepositNewMoney(lots, sequenceGenerator, 1, "Bitfinex", amountLocalCurrency, Num(2)),
              [NoCall EXCEPT !.op = "DepositNewMoney", !.date = 1,
                             !.account = "Bitfinex", !.amount = amountLocalCurrency,
                             !.amount2 = Num(2)])

DoTransferMultipleLots ==
    \E fromLotNames \in NameLists, totalAmountToMove \in Totals, feePaidFromAmount \in {Num(0), Num(1)} :
        Apply(TransferMultipleLots(lots, sequenceGenerator, 2, fromLotNames, localCurrency,
                                   totalAmountToMove, feePaidFromAmount, "Coinbase"),
              [NoCall EXCEPT !.op = "TransferMultipleLots", !.date = 2,
                             !.names = fromLotNames, !.currency = localCurrency,
                             !.amount = totalAmountToMove, !.amount2 = feePaidFromAmount,
                             !.account = "Coinbase"])

DoTransferMultipleLotsFully ==
    \E fromLotNames \in NameLists, amountRemoved \in Totals, feePaidFromAmount \in {Num(0), Num(1)} :
        Apply(TransferMultipleLotsFully(lots, sequenceGenerator, 2, fromLotNames, localCurrency,
                                        amountRemoved, feePaidFromAmount, "Coinbase"),
              [NoCall EXCEPT !.op = "TransferMultipleLotsFully", !.date = 2,
                             !.names = fromLotNames, !.currency = localCurrency,
                             !.amount = amountRemoved, !.amount2 = feePaidFromAmount,
                             !.account = "Coinbase"])

DoExchangeTaxableMultipleLots ==
    \E fromLotNames \in NameLists, totalAmountToSell \in Totals, flag \in BOOLEAN, totalAmountToPurchase \in Positive :
        Apply(ExchangeTaxableMultipleLots(lots, sequenceGenerator, 2, fromLotNames, localCurrency,
                                          totalAmountToSell, flag, "BTC", totalAmountToPurchase),
              [NoCall EXCEPT !.op = "ExchangeTaxableMultipleLots", !.date = 2,
                             !.names = fromLotNames, !.currency = localCurrency,
                             !.amount = totalAmountToSell, !.flag = flag,
                             !.currency2 = "BTC", !.amount2 = totalAmountToPurchase])

NextTransferMulti ==
    \/ DoDepositMulti
    \/ DoTransferMultipleLots
    \/ DoTransferMultipleLotsFully

SpecTransferMulti == Init /\ [][NextTransferMulti]_vars

NextExchangeMulti ==
    \/ DoDepositMulti
    \/ DoExchangeTaxableMultipleLots

SpecExchangeMulti == Init /\ [][NextExchangeMulti]_vars

-----------------------------------------------------------------------------
(* Taxable exchanges into one currency followed by a merge of the lots      *)
(* purchased: a ledger holding two deposited lots, and a client that        *)
(* exchanges from them into BTC on day 2 and merges lots of BTC.            *)

InitTwoSources ==
    /\ lots = DepositNewMoney(DepositNewMoney(<<>>, 0, 1, "Bitfinex", Num(2), Num(3)).lots, 1,
                              1, "Bitfinex", Num(2), Num(2)).lots
    /\ sequenceGenerator = 2
    /\ err = "none"
    /\ last = NoCall
    /\ prev = [lots |-> <<>>, sequenceGenerator |-> 0]
    /\ steps = 0
    /\ replica = NewLedger

\* The names of the lots of type Asset that hold, or have held, BTC.
PurchasedNames ==
    {lots[i].name : i \in {j \in 1..Len(lots) : lots[j].currency = "BTC" /\ lots[j].lotType = Asset}}

DoExchangeIntoOne ==
    \E fromLotName \in FundingNames, soldAmount \in Positive, flag \in BOOLEAN, purchasedAmountReceived \in Amounts :
        Apply(ExchangeTaxable(lots, sequenceGenerator, 2, fromLotName, localCurrency,
                              soldAmount, flag, "BTC", purchasedAmountReceived),
              [NoCall EXCEPT !.op = "ExchangeTaxable", !.date = 2, !.from = fromLotName,
                             !.currency = localCurrency, !.amount = soldAmount,
                             !.flag = flag, !.currency2 = "BTC",
                             !.amount2 = purchasedAmountReceived])

DoMergePurchased ==
    \E lotNames \in {<<a>> : a \in PurchasedNames} \cup {<<a, b>> : a \in PurchasedNames, b \in PurchasedNames} :
        Apply(MergeIdenticalLots(lots, sequenceGenerator, 2, "BTC", lotNames),
              [NoCall EXCEPT !.op = "MergeIdenticalLots", !.date = 2,
                             !.currency = "BTC", !.names = lotNames])

NextExchangeMerge ==
    \/ DoExchangeIntoOne
    \/ DoMergePurchased

SpecExchangeMerge == InitTwoSources /\ [][NextExchangeMerge]_vars

-----------------------------------------------------------------------------
(* Disposals a year after the purchase: a client that deposits on day 1 or  *)
(* day 2 and spends from its lots on the day of the deposit or 364, 365 or  *)
(* 366 days after day 1.                                                    *)

SpendDays == {1, 365, 366, 367}

DoDepositOnDay ==
    \E date \in Dates, costBasis \in {Num(1), Num(3)} :
        Apply(DepositNewMoney(lots, sequenceGenerator, date, "Bitfinex", Num(2), costBasis),
              [NoCall EXCEPT !.op = "DepositNewMoney", !.date = date,
                             !.account = "Bitfinex", !.amount = Num(2),
                             !.amount2 = costBasis])

DoSpendOnDay ==
    \E fromLotName \in FundingNames, date \in SpendDays :
        SpendCall(date, "Bitfinex", fromLotName, localCurrency, Num(1))

NextHolding ==
    \/ DoDepositOnDay
    \/ DoSpendOnDay

SpecHolding == Init /\ [][NextHolding]_vars

-----------------------------------------------------------------------------
(* The price lookup on ledgers built with other price tables: a client     *)
(* that looks up the price of USD, BTC or ETH on day 1, 2 or 3.            *)

\* The price tables handed to New: an empty table, the table of the ledger,
\* a table that prices the reporting currency at 2, a table with BTC on days
\* 1 and 3 but not 2, a table with ETH only, and a table that lists BTC with
\* no date.
PriceTables ==
    {[c \in {} |-> Zero],
     historicalPrices,
     ("USD" :> (1 :> Num(2) @@ 2 :> Num(2)) @@ "BTC" :> (2 :> Num(3))),
     ("BTC" :> (1 :> Num(3) @@ 3 :> Num(2))),
     ("ETH" :> (2 :> Num(5))),
     ("BTC" :> [d \in {} |-> Zero])}

DoLookupPrice ==
    \E prices \in PriceTables, currency \in {"USD", "BTC", "ETH"}, date \in {1, 2, 3} :
        With(lookupPriceIn(prices, currency, date), LAMBDA pr :
        Apply(R(lots, sequenceGenerator, pr.err, pr.price, 0),
              [NoCall EXCEPT !.op = "lookupPrice", !.currency = currency, !.date = date,
                             !.prices = prices]))

NextPrices == DoLookupPrice

SpecPrices == Init /\ [][NextPrices]_vars

-----------------------------------------------------------------------------
(* Replay: a second ledger built by New with the same reporting currency   *)
(* and price table, on which the client repeats each call it has made on   *)
(* the first before it makes the next (the guard on replica in Apply).     *)
(* The client deposits, records income, purchases, spends, transfers,      *)
(* exchanges taxably and merges; Fee and ExchangeNonTaxable, which are     *)
(* made of steps of Spend and ExchangeTaxable, are left to Spec.           *)

InitReplay ==
    /\ lots = <<>>
    /\ sequenceGenerator = 0
    /\ err = "none"
    /\ last = NoCall
    /\ prev = [lots |-> <<>>, sequenceGenerator |-> 0]
    /\ steps = 0
    /\ replica = [NewLedger EXCEPT !.inUse = TRUE]

\* The effect of one call with result r on the second ledger.
Replay(r) ==
    /\ replica' = [replica EXCEPT !.lots = r.lots,
                                  !.sequenceGenerator = r.sequenceGenerator,
                                  !.err = r.err, !.done = replica.done + 1]
    /\ UNCHANGED <<lots, sequenceGenerator, err, last, prev, steps>>

\* The second ledger is one call behind the first, and that call is op.
Behind(op) == replica.done < steps /\ last.op = op

\* The client repeats on the second ledger the call it last made on the
\* first, with the arguments it made it with.
DoReplayCall ==
    \/ /\ Behind("DepositNewMoney")
       /\ Replay(DepositNewMoney(replica.lots, replica.sequenceGenerator, last.date,
                                 last.account, last.amount, last.amount2))
    \/ /\ Behind("Income")
       /\ Replay(Income(replica.lots, replica.sequenceGenerator, last.date, last.account,
                        last.currency, last.amount, last.amount2))
    \/ /\ Behind("Purchase")
       /\ Replay(Purchase(replica.lots, replica.sequenceGenerator, last.date, last.from,
                          last.account, last.currency, last.amount, last.amount2))
    \/ /\ Behind("Spend")
       /\ Replay(Spend(replica.lots, replica.sequenceGenerator, last.date, last.account,
                       last.from, last.currency, last.amount, "note"))
    \/ /\ Behind("Transfer")
       /\ Replay(Transfer(replica.lots, replica.sequenceGenerator, last.date, last.from,
                          last.currency, last.amount, last.amount2, last.account))
    \/ /\ Behind("ExchangeTaxable")
       /\ Replay(ExchangeTaxable(replica.lots, replica.sequenceGenerator, last.date,
                                 last.from, last.currency, last.amount, last.flag,
                                 last.currency2, last.amount2))
    \/ /\ Behind("MergeIdenticalLots")
       /\ Replay(MergeIdenticalLots(replica.lots, replica.sequenceGenerator, last.date,
                                    last.currency, last.names))

NextReplay ==
    \/ DoDepositNewMoney
    \/ DoIncome
    \/ DoPurchase
    \/ DoSpend
    \/ DoTransfer
    \/ DoExchangeTaxable
    \/ DoMergeIdenticalLots
    \/ DoReplayCall

SpecReplay == InitReplay /\ [][NextReplay]_vars

-----------------------------------------------------------------------------
(* Disposals from transferred lots: a client that deposits on day 1 or 2,  *)
(* moves the money on between accounts on day 2 or day 366, exchanges it   *)
(* for BTC, and spends or pays fees from the lots on day 3 or day 366.     *)

TransferDays == {2, 366}
DisposalDays == {3, 366}

\* The names of the asset lots that are not aggregation lots of Spend, each
\* with the currency the lot holds.
HeldLots ==
    {<<lots[i].name, lots[i].currency>> :
        i \in {j \in 1..Len(lots) : /\ lots[j].lotType = Asset
                                    /\ lots[j].name[Len(lots[j].name)] # 0}}

DoTransferOnDay ==
    \E src \in HeldLots, date \in TransferDays, feePaidFromAmount \in {Num(0), Num(1)} :
        TransferCall(date, src[1], src[2], Num(2), feePaidFromAmount, "Coinbase")

DoDisposeOnDay ==
    \E src \in HeldLots, date \in DisposalDays :
        \/ SpendCall(date, "Bitfinex", src[1], src[2], Num(1))
        \/ FeeCall(date, src[1], src[2], Num(1), src[1])

DoExchangeOnDay ==
    \E fromLotName \in FundingNames, date \in TransferDays :
        \/ ExchangeTaxableCall(date, fromLotName, localCurrency, Num(1), TRUE)
        \/ ExchangeNonTaxableCall(date, fromLotName, localCurrency, Num(1))

NextTransferred ==
    \/ DoDepositOnDay
    \/ DoTransferOnDay
    \/ DoDisposeOnDay
    \/ DoExchangeOnDay

SpecTransferred == Init /\ [][NextTransferred]_vars

-----------------------------------------------------------------------------
(* The claims.  A claim about one call is a predicate on the state the     *)
(* call leaves: last is the call, prev the ledger before it, lots the      *)
(* ledger after it.                                                        *)

\* The index in prev.lots of the lot the last call names as its source lot;
\* 0 when no lot carries that name.
Src == findLotByName(prev.lots, last.from)

\* The last call was Remove(currency, a) on a lot of that currency with
\* remaining amount A > 0, a cost basis B that is a number, and 0 <= a <= A.
RemoveInRange ==
    /\ last.op = "Remove"
    /\ prev.lots[Src].currency = last.currency
    /\ ~IsNaN(prev.lots[Src].costBasis)
    /\ Gt(prev.lots[Src].amount, Zero)
    /\ Le(Zero, last.amount)
    /\ Le(last.amount, prev.lots[Src].amount)

\* Remove returned exactly B*a/A and left A - a and B - B*a/A, the per-unit
\* cost basis of a non-zero remainder being B/A, and a = A leaving 0 and 0.
\* basis/amount = B/A is stated as basis*A = B*amount: a quotient of two
\* dust-sized values is known to the model in its rational part only.
RemovedProportionally(A, B, a, ret, left) ==
    /\ err = "none"
    /\ Eq(ret, Div(Mul(B, a), A))
    /\ Eq(left.amount, Sub(A, a))
    /\ Eq(left.costBasis, Sub(B, Div(Mul(B, a), A)))
    /\ Ne(left.amount, Zero) => Eq(Mul(left.costBasis, A), Mul(B, left.amount))
    /\ Eq(a, A) => Eq(left.amount, Zero) /\ Eq(left.costBasis, Zero)

\* Remove took the whole lot: it returned B and left amount 0 and cost basis 0.
RemovedWhole(B, ret, left) ==
    /\ err = "none"
    /\ Eq(ret, B)
    /\ Eq(left.amount, Zero)
    /\ Eq(left.costBasis, Zero)

\* a/A is above 0.999999999999999 and a is not A.
InClampWindow(A, a) == Gt(Div(a, A), ClampThreshold) /\ Ne(a, A)

\* C1 as stated: Remove(currency, a) on a lot of that currency with remaining
\* amount A > 0, cost basis B and 0 <= a <= A returns exactly B*a/A and leaves
\* A - a and B - B*a/A; the per-unit cost basis of a non-zero remainder is B/A,
\* and a = A leaves amount 0 and cost basis 0.
C1_RemoveExactlyProportional ==
    RemoveInRange =>
        RemovedProportionally(prev.lots[Src].amount, prev.lots[Src].costBasis,
                              last.amount, last.ret, lots[Src])

\* C1 amended: the same, for a = A or a/A at most 0.999999999999999; for a/A
\* above 0.999999999999999 and a < A, Remove takes the whole lot: it returns B
\* and leaves amount 0 and cost basis 0.
C1_RemoveProportionalOrWhole ==
    RemoveInRange =>
        IF InClampWindow(prev.lots[Src].amount, last.amount)
        THEN RemovedWhole(prev.lots[Src].costBasis, last.ret, lots[Src])
        ELSE RemovedProportionally(prev.lots[Src].amount, prev.lots[Src].costBasis,
                                   last.amount, last.ret, lots[Src])

\* C1 witness: Remove has taken an amount in the clamp window from a lot with
\* a positive cost basis that an earlier removal had already taken a part of.
C1_Witness ==
    /\ RemoveInRange
    /\ err = "none"
    /\ InClampWindow(prev.lots[Src].amount, last.amount)
    /\ Gt(prev.lots[Src].costBasis, Zero)
    /\ Lt(prev.lots[Src].amount, prev.lots[Src].originalPurchaseAmount)

\* C2 as stated: after calls that each complete without failure, every lot has
\* remaining amount >= 0 and remaining cost basis >= 0.
C2_BalancesNonNegative ==
    err = "none" =>
        \A i \in 1..Len(lots) : Ge(lots[i].amount, Zero) /\ Ge(lots[i].costBasis, Zero)

\* C2 witness: a call that removed 0 from a lot holding 0 has completed and
\* left the lot with an amount that is not a number.
C2_Witness ==
    /\ err = "none"
    /\ Src # 0
    /\ IsZero(prev.lots[Src].amount)
    /\ IsZero(last.amount)
    /\ IsNaN(lots[Src].amount)

FeeTarget == IF last.op = "Fee" THEN findLotByName(prev.lots, last.target) ELSE 0

\* C4 as stated: for every lot and every call, the lot's remaining amount and
\* remaining cost basis after the call are each less than or equal to their
\* values before it.
C4_BalancesNeverIncrease ==
    \A i \in 1..Len(prev.lots) :
        /\ Le(lots[i].amount, prev.lots[i].amount)
        /\ Le(lots[i].costBasis, prev.lots[i].costBasis)

\* C4 amended: no call leaves a lot's remaining amount greater than it was, and
\* no call leaves a lot's remaining cost basis greater than it was, except Fee
\* on the lot it applies the fee to: a Fee that completes adds the value of the
\* fee (price times amount) to that lot's cost basis.
C4_OnlyFeeIncreasesCostBasis ==
    \A i \in 1..Len(prev.lots) :
        /\ ~Gt(lots[i].amount, prev.lots[i].amount)
        /\ i # FeeTarget => ~Gt(lots[i].costBasis, prev.lots[i].costBasis)
        /\ (i = FeeTarget /\ i # Src /\ err = "none") =>
               lots[i].costBasis =
                   Add(prev.lots[i].costBasis,
                       Mul(lookupPrice(last.currency, last.date).price, last.amount))

\* C4 witness: a Fee has completed and left the cost basis of the lot it was
\* applied to greater than before, the lot it was paid from holding less.
C4_Witness ==
    /\ last.op = "Fee"
    /\ err = "none"
    /\ FeeTarget # 0
    /\ FeeTarget # Src
    /\ Gt(lots[FeeTarget].costBasis, prev.lots[FeeTarget].costBasis)
    /\ Lt(lots[Src].amount, prev.lots[Src].amount)

\* C5 as stated: every TaxableGains lot has remaining amount 0 and remaining
\* cost basis 0, and no call changes its TaxableGainsDetails.
C5_TaxableGainsLotsFrozen ==
    \A i \in 1..Len(lots) :
        lots[i].lotType = TaxableGains =>
            /\ IsZero(lots[i].amount)
            /\ IsZero(lots[i].costBasis)
            /\ i <= Len(prev.lots) =>
                   lots[i].taxableGainsDetails = prev.lots[i].taxableGainsDetails

\* C5 witness: a Fee applied to a TaxableGains lot has completed and left that
\* lot with a positive cost basis.
C5_Witness ==
    /\ last.op = "Fee"
    /\ err = "none"
    /\ FeeTarget # 0
    /\ lots[FeeTarget].lotType = TaxableGains
    /\ Gt(lots[FeeTarget].costBasis, Zero)

\* The fields of a lot no call writes after the lot is made.
Identity(lot) ==
    <<lot.parent, lot.name, lot.lotType, lot.originalPurchaseTime, lot.account,
      lot.currency, lot.originalPurchaseAmount, lot.originalCostBasis>>

\* C6: every call leaves the lots of the log before it in the log, in their
\* places and with their identities: lots are only appended, and a drained
\* lot stays in the log.
C6_AppendOnly ==
    /\ Len(prev.lots) <= Len(lots)
    /\ \A i \in 1..Len(prev.lots) : Identity(lots[i]) = Identity(prev.lots[i])

\* C6 witness: MergeIdenticalLots has drained a lot, left it in its place and
\* appended the merged lot.
C6_Witness ==
    /\ last.op = "MergeIdenticalLots"
    /\ err = "none"
    /\ Src = 0
    /\ Len(lots) = Len(prev.lots) + 1
    /\ \E i \in 1..Len(prev.lots) :
           /\ Gt(prev.lots[i].amount, Zero)
           /\ IsZero(lots[i].amount)
           /\ lots[i].name = last.names[1]

\* C7 as stated: when a call fails with MissingPrice, the ledger is exactly as
\* before the call: the source lot's remaining amount and cost basis are
\* unchanged and no lot has been appended.
C7_MissingPriceLeavesLedgerUnchanged ==
    err = "MissingPrice" =>
        lots = prev.lots /\ sequenceGenerator = prev.sequenceGenerator

\* C7 witness: ExchangeTaxable has failed with MissingPrice and the source lot
\* holds less than before the call.
C7_Witness ==
    /\ last.op = "ExchangeTaxable"
    /\ err = "MissingPrice"
    /\ Lt(lots[Src].amount, prev.lots[Src].amount)
    /\ Len(lots) = Len(prev.lots)

\* C8 as stated: when MergeIdenticalLots fails because a named lot disagrees
\* on purchase date, per-unit price or account, or cannot be found, the ledger
\* is exactly as before the call.
C8_FailedMergeLeavesLedgerUnchanged ==
    (last.op = "MergeIdenticalLots" /\ err \in {"IdentityMismatch", "LotNotFound"}) =>
        lots = prev.lots /\ sequenceGenerator = prev.sequenceGenerator

\* C8 witness: MergeIdenticalLots has failed with IdentityMismatch on its
\* second lot and the first lot it named is drained.
C8_Witness ==
    /\ last.op = "MergeIdenticalLots"
    /\ err = "IdentityMismatch"
    /\ Len(last.names) = 2
    /\ \E i \in 1..Len(prev.lots) :
           /\ lots[i].name = last.names[1]
           /\ Gt(prev.lots[i].amount, Zero)
           /\ IsZero(lots[i].amount)

\* The last call was ExchangeNonTaxable naming a lot of the log in the
\* currency it holds.
ExchangedNonTaxable ==
    /\ last.op = "ExchangeNonTaxable"
    /\ FindLotByName(prev.lots, last.from, last.currency).err = "none"

\* The lot named holds at least the amount sold, and more than nothing.
HoldsAmountSold ==
    /\ Gt(prev.lots[Src].amount, Zero)
    /\ Le(last.amount, prev.lots[Src].amount)

TransferredWithoutFee ==
    /\ last.op = "Transfer"
    /\ IsZero(last.amount2)
    /\ FindLotByName(prev.lots, last.from, last.currency).err = "none"
    /\ ~IsNaN(prev.lots[Src].costBasis)
    /\ Gt(prev.lots[Src].amount, Zero)
    /\ Le(Zero, last.amount)
    /\ Le(last.amount, prev.lots[Src].amount)

\* Transfer appended exactly one lot, a child of the source of type Asset in
\* toAccount, in the source's currency and dated with the source's original
\* purchase date, holding the amount a; it changed no lot but the source.
AppendedDestination ==
    /\ err = "none"
    /\ Len(lots) = Len(prev.lots) + 1
    /\ last.retLot = Len(lots)
    /\ lots[Len(lots)].parent = Src
    /\ lots[Len(lots)].name = Append(prev.lots[Src].name, prev.lots[Src].sequenceGenerator + 1)
    /\ lots[Len(lots)].lotType = Asset
    /\ lots[Len(lots)].account = last.account
    /\ lots[Len(lots)].currency = prev.lots[Src].currency
    /\ lots[Len(lots)].originalPurchaseTime = prev.lots[Src].originalPurchaseTime
    /\ Eq(lots[Len(lots)].amount, last.amount)
    /\ \A i \in 1..Len(prev.lots) : i # Src => lots[i] = prev.lots[i]

\* C10 as stated: Transfer of a with fee 0 from a lot with remaining amount A
\* and basis B appends exactly one lot, a child of the source, Asset, in
\* toAccount, same currency, dated with the source's original purchase date,
\* with amount a and cost basis B*a/A; the source is left with A - a and
\* B - B*a/A; total amount and total cost basis over the two are unchanged.
C10_TransferSplitsProportionally ==
    TransferredWithoutFee =>
        /\ AppendedDestination
        /\ RemovedProportionally(prev.lots[Src].amount, prev.lots[Src].costBasis,
                                 last.amount, lots[Len(lots)].costBasis, lots[Src])
        /\ Eq(Add(lots[Src].amount, lots[Len(lots)].amount), prev.lots[Src].amount)
        /\ Eq(Add(lots[Src].costBasis, lots[Len(lots)].costBasis), prev.lots[Src].costBasis)

\* C10 amended: the same, for a = A or a/A at most 0.999999999999999; for a/A
\* above 0.999999999999999 and a < A the appended lot holds the amount a with
\* the whole cost basis B and the source is left with amount 0 and cost basis
\* 0: the total cost basis is unchanged and the total amount is a.
C10_TransferSplitsOrTakesWhole ==
    TransferredWithoutFee =>
        /\ AppendedDestination
        /\ Eq(Add(lots[Src].costBasis, lots[Len(lots)].costBasis), prev.lots[Src].costBasis)
        /\ IF InClampWindow(prev.lots[Src].amount, last.amount)
           THEN /\ RemovedWhole(prev.lots[Src].costBasis, lots[Len(lots)].costBasis,
                                lots[Src])
                /\ Eq(Add(lots[Src].amount, lots[Len(lots)].amount), last.amount)
           ELSE /\ RemovedProportionally(prev.lots[Src].amount, prev.lots[Src].costBasis,
                                         last.amount, lots[Len(lots)].costBasis, lots[Src])
                /\ Eq(Add(lots[Src].amount, lots[Len(lots)].amount),
                      prev.lots[Src].amount)

\* C10 witness: Transfer with fee 0 on a later date has moved a part of a lot
\* with a positive cost basis, and left a part; the lot it took from was itself
\* the destination of a transfer.
C10_Witness ==
    /\ TransferredWithoutFee
    /\ err = "none"
    /\ prev.lots[Src].parent # 0
    /\ prev.lots[Src].originalPurchaseTime < last.date
    /\ Gt(prev.lots[Src].costBasis, Zero)
    /\ Gt(last.amount, Zero)
    /\ Gt(lots[Src].amount, Zero)
    /\ ~InClampWindow(prev.lots[Src].amount, last.amount)

\* The last call was Transfer of an amount a with a fee f > 0 from a lot with
\* remaining amount A > 0 and a cost basis B that is a number, and it completed.
TransferredWithFee ==
    /\ last.op = "Transfer"
    /\ err = "none"
    /\ Gt(last.amount2, Zero)
    /\ ~IsNaN(prev.lots[Src].costBasis)
    /\ Gt(prev.lots[Src].amount, Zero)

\* The cost basis the last call removed from its source lot.
RemovedFromSource == Sub(prev.lots[Src].costBasis, lots[Src].costBasis)

\* The value of the fee of the last call: price(currency, date) * f.
FeeValue == Mul(lookupPrice(last.currency, last.date).price, last.amount2)

\* C11 as stated: Transfer of a with fee f > 0 takes the fee out of the new
\* destination lot and not out of the source: the destination is left with the
\* amount a - f and the cost basis c - c*f/a + price(currency, date)*f, c being
\* the cost basis removed from the source, and the source has lost exactly a.
C11_FeeTakenFromDestinationExactly ==
    TransferredWithFee =>
        /\ last.retLot = Len(prev.lots) + 1
        /\ Eq(lots[last.retLot].amount, Sub(last.amount, last.amount2))
        /\ Eq(lots[last.retLot].costBasis,
              Add(Sub(RemovedFromSource,
                      Div(Mul(RemovedFromSource, last.amount2), last.amount)),
                  FeeValue))
        /\ Eq(lots[Src].amount, Sub(prev.lots[Src].amount, last.amount))

\* C11 amended: the same, for f = a or f/a at most 0.999999999999999, and for
\* a = A or a/A at most 0.999999999999999.  For f/a above 0.999999999999999 and
\* f # a the destination is left with amount 0 and cost basis
\* price(currency, date)*f; for a/A above 0.999999999999999 and a # A the source
\* is left with amount 0.
C11_FeeTakenFromDestination ==
    TransferredWithFee =>
        /\ last.retLot = Len(prev.lots) + 1
        /\ Eq(lots[last.retLot].amount,
              IF InClampWindow(last.amount, last.amount2) THEN Zero
              ELSE Sub(last.amount, last.amount2))
        /\ Eq(lots[last.retLot].costBasis,
              IF InClampWindow(last.amount, last.amount2) THEN FeeValue
              ELSE Add(Sub(RemovedFromSource,
                           Div(Mul(RemovedFromSource, last.amount2), last.amount)),
                       FeeValue))
        /\ Eq(lots[Src].amount,
              IF InClampWindow(prev.lots[Src].amount, last.amount) THEN Zero
              ELSE Sub(prev.lots[Src].amount, last.amount))

\* C11 witness: a Transfer with a fee has completed, from a lot it left a part
\* of, with a positive cost basis removed; the destination holds a positive
\* amount, and the fee was worth something else than its share of that cost
\* basis, so that a TaxableGains lot was recorded.
C11_Witness ==
    /\ TransferredWithFee
    /\ Gt(lots[Src].amount, Zero)
    /\ Gt(RemovedFromSource, Zero)
    /\ Gt(lots[last.retLot].amount, Zero)
    /\ lots[Len(lots)].lotType = TaxableGains
    /\ Ne(lots[Len(lots)].taxableGainsDetails.costBasis,
          lots[Len(lots)].taxableGainsDetails.proceeds)

\* x is within tol of v.
Approx(x, v, tol) == Le(Sub(x, v), tol) /\ Le(Sub(v, x), tol)

\* The last call was the transfer of simpleScenario (0.8 BTC from lot "1.1"
\* with a fee of 0.001) made on the given day on the ledger as the deposit of
\* 960 with cost basis 1085 and the purchase of 0.83976678 BTC for 960 from lot
\* "1" leave it.
ScenarioTransferOn(date) ==
    /\ last.op = "Transfer"
    /\ last.date = date
    /\ last.from = <<1, 1>>
    /\ last.currency = "BTC"
    /\ last.amount = Dec(8, 1)
    /\ last.amount2 = Dec(1, 3)
    /\ prev.lots =
           <<[NewLot(0, <<1>>, Asset, 1, "Bitfinex", "USD", Num(960), Num(1085))
                 EXCEPT !.amount = Zero, !.costBasis = Zero, !.sequenceGenerator = 1],
             NewLot(1, <<1, 1>>, Asset, 1, "Bitfinex", "BTC", Dec(83976678, 8), Num(1085))>>

\* C12 as stated: in the worked scenario with a BTC price of 6767.31 on the
\* day of the transfer, the source lot "1.1" retains 0.03976678 at a cost basis
\* of about 51.379689 and the destination lot holds 0.80000000 at a cost basis
\* of about 1039.095595.
C12_DestinationHoldsAmountTransferred ==
    ScenarioTransferOn(3) =>
        /\ err = "none"
        /\ Approx(lots[2].amount, Dec(3976678, 8), Dec(5, 9))
        /\ Approx(lots[2].costBasis, Dec(51379689, 6), Dec(5, 7))
        /\ Approx(lots[last.retLot].amount, Dec(8, 1), Dec(5, 9))
        /\ Approx(lots[last.retLot].costBasis, Dec(1039095595, 6), Dec(5, 7))

\* C12 amended: the same, the destination lot holding 0.79900000, the amount
\* transferred less the fee.
C12_DestinationHoldsAmountLessFee ==
    ScenarioTransferOn(3) =>
        /\ err = "none"
        /\ Approx(lots[2].amount, Dec(3976678, 8), Dec(5, 9))
        /\ Approx(lots[2].costBasis, Dec(51379689, 6), Dec(5, 7))
        /\ Approx(lots[last.retLot].amount, Dec(799, 3), Dec(5, 9))
        /\ Approx(lots[last.retLot].costBasis, Dec(1039095595, 6), Dec(5, 7))

\* C12 witness: the transfer of the worked scenario has completed on the day
\* priced at 6767.31, recording the gain on the fee: proceeds of about 6.767310
\* on a cost basis of about 1.292025.
C12_Witness ==
    /\ ScenarioTransferOn(3)
    /\ err = "none"
    /\ lots[Len(lots)].lotType = TaxableGains
    /\ Approx(lots[Len(lots)].taxableGainsDetails.proceeds, Dec(6767310, 6), Dec(5, 7))
    /\ Approx(lots[Len(lots)].taxableGainsDetails.costBasis, Dec(1292025, 6), Dec(5, 7))

\* The sum of the remaining cost basis of the lots from the i-th on.
RECURSIVE CostBasisFrom(_, _)
CostBasisFrom(ls, i) == IF i > Len(ls) THEN Zero ELSE Add(ls[i].costBasis, CostBasisFrom(ls, i + 1))

PurchasedWithinBalance ==
    /\ last.op = "Purchase"
    /\ FindLotByName(prev.lots, last.from, localCurrency).err = "none"
    /\ ~IsNaN(prev.lots[Src].costBasis)
    /\ Gt(prev.lots[Src].amount, Zero)
    /\ Le(Zero, last.amount2)
    /\ Le(last.amount2, prev.lots[Src].amount)

\* Purchase appended exactly one lot, a child of the funding lot of type Asset
\* in toAccount, in the given currency and amount and dated with the given
\* date, whose cost basis is the cost basis removed from the funding lot; it
\* changed no lot but the funding lot.
AppendedPurchase ==
    /\ err = "none"
    /\ Len(lots) = Len(prev.lots) + 1
    /\ lots[Len(lots)].parent = Src
    /\ lots[Len(lots)].name = Append(prev.lots[Src].name, prev.lots[Src].sequenceGenerator + 1)
    /\ lots[Len(lots)].lotType = Asset
    /\ lots[Len(lots)].account = last.account
    /\ lots[Len(lots)].currency = last.currency
    /\ lots[Len(lots)].originalPurchaseTime = last.date
    /\ Eq(lots[Len(lots)].amount, last.amount)
    /\ Eq(lots[Len(lots)].costBasis, Sub(prev.lots[Src].costBasis, lots[Src].costBasis))
    /\ \A i \in 1..Len(prev.lots) : i # Src => lots[i] = prev.lots[i]

\* C14 as stated: Purchase at a cost from a reporting-currency lot with
\* remaining amount A and cost basis B removes the amount cost from it and
\* appends one child of it (Asset, toAccount, the given currency and amount,
\* dated date) whose cost basis is B*cost/A, the cost basis removed from the
\* funding lot.
C14_PurchaseCarriesProportionalBasis ==
    PurchasedWithinBalance =>
        /\ AppendedPurchase
        /\ Eq(lots[Len(lots)].costBasis,
              Div(Mul(prev.lots[Src].costBasis, last.amount2), prev.lots[Src].amount))
        /\ Eq(lots[Src].amount, Sub(prev.lots[Src].amount, last.amount2))

\* C14 amended: the same, for cost = A or cost/A at most 0.999999999999999; for
\* cost/A above 0.999999999999999 and cost < A the child's cost basis is the
\* whole of B and the funding lot is left with amount 0.
C14_PurchaseCarriesRemovedBasis ==
    PurchasedWithinBalance =>
        /\ AppendedPurchase
        /\ IF InClampWindow(prev.lots[Src].amount, last.amount2)
           THEN /\ Eq(lots[Len(lots)].costBasis, prev.lots[Src].costBasis)
                /\ Eq(lots[Src].amount, Zero)
           ELSE /\ Eq(lots[Len(lots)].costBasis,
                      Div(Mul(prev.lots[Src].costBasis, last.amount2), prev.lots[Src].amount))
                /\ Eq(lots[Src].amount, Sub(prev.lots[Src].amount, last.amount2))

\* C14 witness: a Purchase has taken a part of a lot whose cost basis exceeds
\* its amount, and the child's cost basis exceeds the cost.
C14_Witness ==
    /\ PurchasedWithinBalance
    /\ err = "none"
    /\ Gt(prev.lots[Src].costBasis, prev.lots[Src].amount)
    /\ Gt(lots[Src].amount, Zero)
    /\ Gt(lots[Len(lots)].costBasis, last.amount2)

\* The currency the last call expects its source lot to hold: the reporting
\* currency for Purchase, the currency it names for the others.
ExpectedCurrency == IF last.op = "Purchase" THEN localCurrency ELSE last.currency

\* The last call was Purchase, Transfer, ExchangeTaxable, ExchangeNonTaxable
\* or Spend of a non-zero amount, and the lot it names as its source is not in
\* the log or does not hold the currency the call expects.
SourceLookupFails ==
    /\ last.op \in {"Purchase", "Transfer", "ExchangeTaxable", "ExchangeNonTaxable", "Spend"}
    /\ last.op = "Spend" => Ne(last.amount, Zero)
    /\ Src = 0 \/ prev.lots[Src].currency # ExpectedCurrency

\* C15: Purchase, Transfer, ExchangeTaxable, ExchangeNonTaxable and Spend of a
\* non-zero amount fail with LotNotFound when no lot carries the name given as
\* the source, and with CurrencyMismatch when that lot is not in the currency
\* the call expects, and leave the ledger as it was: no balance changed and
\* nothing appended.
C15_FailedLookupLeavesLedgerUnchanged ==
    SourceLookupFails =>
        /\ err = (IF Src = 0 THEN "LotNotFound" ELSE "CurrencyMismatch")
        /\ lots = prev.lots
        /\ sequenceGenerator = prev.sequenceGenerator

\* C15 witness: a Spend of a non-zero amount has named a lot that holds a
\* positive amount of another currency.
C15_Witness ==
    /\ SourceLookupFails
    /\ last.op = "Spend"
    /\ Src # 0
    /\ Gt(prev.lots[Src].amount, Zero)
    /\ err = "CurrencyMismatch"

\* The last call was ExchangeTaxable of an amount the lot named holds, from a
\* lot of the log in the currency it holds whose cost basis is a number, on a
\* date with a price for the currency the selector flag picks.
ExchangedTaxable ==
    /\ last.op = "ExchangeTaxable"
    /\ Src # 0
    /\ prev.lots[Src].currency = last.currency
    /\ ~IsNaN(prev.lots[Src].costBasis)
    /\ Gt(prev.lots[Src].amount, Zero)
    /\ Le(last.amount, prev.lots[Src].amount)
    /\ lookupPrice(IF last.flag THEN last.currency ELSE last.currency2, last.date).err = "none"

\* The value v of the trade of the last call: the price of the sold currency
\* times the amount sold when the selector flag is true, the price of the
\* purchased currency times the amount received otherwise.
TradeValue ==
    IF last.flag
    THEN Mul(lookupPrice(last.currency, last.date).price, last.amount)
    ELSE Mul(lookupPrice(last.currency2, last.date).price, last.amount2)

\* C16: ExchangeTaxable removes soldAmount with its share c of the cost basis
\* from the source lot, values the trade at v, and appends exactly two children
\* of the source, in this order: an Asset lot in the source's account, dated
\* with the date of the exchange, of purchasedAmountReceived in
\* purchasedCurrency with cost basis v, and a TaxableGains lot whose details
\* hold cost basis c, proceeds v, amount soldAmount, the source's original
\* purchase date and gains v - c, whatever v - c is.
C16_ExchangeTaxableAppendsAssetThenGains ==
    ExchangedTaxable =>
        /\ err = "none"
        /\ Len(lots) = Len(prev.lots) + 2
        /\ \A i \in 1..Len(prev.lots) : i # Src => lots[i] = prev.lots[i]
        /\ IF InClampWindow(prev.lots[Src].amount, last.amount)
           THEN RemovedWhole(prev.lots[Src].costBasis,
                             lots[Len(lots)].taxableGainsDetails.costBasis, lots[Src])
           ELSE RemovedProportionally(prev.lots[Src].amount, prev.lots[Src].costBasis,
                                      last.amount,
                                      lots[Len(lots)].taxableGainsDetails.costBasis,
                                      lots[Src])
        /\ lots[Len(lots) - 1].parent = Src
        /\ lots[Len(lots) - 1].name = Append(prev.lots[Src].name, prev.lots[Src].sequenceGenerator + 1)
        /\ lots[Len(lots) - 1].lotType = Asset
        /\ lots[Len(lots) - 1].account = prev.lots[Src].account
        /\ lots[Len(lots) - 1].originalPurchaseTime = last.date
        /\ lots[Len(lots) - 1].currency = last.currency2
        /\ Eq(lots[Len(lots) - 1].amount, last.amount2)
        /\ Eq(lots[Len(lots) - 1].costBasis, TradeValue)
        /\ last.retLot = Len(lots) - 1
        /\ lots[Len(lots)].parent = Src
        /\ lots[Len(lots)].name = Append(prev.lots[Src].name, prev.lots[Src].sequenceGenerator + 2)
        /\ lots[Len(lots)].lotType = TaxableGains
        /\ IsZero(lots[Len(lots)].amount)
        /\ IsZero(lots[Len(lots)].costBasis)
        /\ lots[Len(lots)].taxableGainsDetails.present
        /\ Eq(lots[Len(lots)].taxableGainsDetails.costBasis,
              Sub(prev.lots[Src].costBasis, lots[Src].costBasis))
        /\ Eq(lots[Len(lots)].taxableGainsDetails.proceeds, TradeValue)
        /\ Eq(lots[Len(lots)].taxableGainsDetails.soldAmount, last.amount)
        /\ lots[Len(lots)].taxableGainsDetails.originalPurchaseTime =
               prev.lots[Src].originalPurchaseTime
        /\ Eq(Gains(lots[Len(lots)].taxableGainsDetails),
              Sub(TradeValue, Sub(prev.lots[Src].costBasis, lots[Src].costBasis)))

\* C16 witness: ExchangeTaxable has sold a part of a lot at a value equal to
\* the cost basis it removed, and the TaxableGains lot is in the log with
\* gains of 0.
C16_Witness ==
    /\ ExchangedTaxable
    /\ err = "none"
    /\ Gt(lots[Src].amount, Zero)
    /\ Gt(TradeValue, Zero)
    /\ lots[Len(lots)].lotType = TaxableGains
    /\ IsZero(Gains(lots[Len(lots)].taxableGainsDetails))

\* x and y are the same value: equal numbers, or both not a number.
Same(x, y) == (IsNaN(x) /\ IsNaN(y)) \/ Eq(x, y)

\* C17 as stated: a successful ExchangeNonTaxable appends exactly one lot, a
\* child of the source, of type Asset in the source's account, dated with the
\* date of the exchange, of purchasedAmountReceived in purchasedCurrency, whose
\* cost basis
\* is the cost basis removed from the source; it appends no TaxableGains lot
\* and changes no other lot, so the sum of the cost basis of all lots is
\* unchanged.
C17_ExchangeNonTaxableCarriesBasis ==
    (ExchangedNonTaxable /\ err = "none") =>
        /\ Len(lots) = Len(prev.lots) + 1
        /\ \A i \in 1..Len(prev.lots) : i # Src => lots[i] = prev.lots[i]
        /\ lots[Len(lots)].parent = Src
        /\ lots[Len(lots)].name = Append(prev.lots[Src].name, prev.lots[Src].sequenceGenerator + 1)
        /\ lots[Len(lots)].lotType = Asset
        /\ ~lots[Len(lots)].taxableGainsDetails.present
        /\ lots[Len(lots)].account = prev.lots[Src].account
        /\ lots[Len(lots)].originalPurchaseTime = last.date
        /\ lots[Len(lots)].currency = last.currency2
        /\ Eq(lots[Len(lots)].amount, last.amount2)
        /\ Same(lots[Len(lots)].costBasis, Sub(prev.lots[Src].costBasis, lots[Src].costBasis))
        /\ Same(CostBasisFrom(lots, 1), CostBasisFrom(prev.lots, 1))

\* C17 witness: ExchangeNonTaxable of 0 from a lot that held nothing has
\* succeeded, and the sum of the cost basis of all lots, a number before the
\* call, is not a number after it.
C17_Witness ==
    /\ ExchangedNonTaxable
    /\ err = "none"
    /\ IsZero(prev.lots[Src].amount)
    /\ IsZero(last.amount)
    /\ ~IsNaN(CostBasisFrom(prev.lots, 1))
    /\ IsNaN(CostBasisFrom(lots, 1))

\* The last call was MergeIdenticalLots, and every name it gave is the name of
\* a lot of the log in the currency given.
MergedNamedLots ==
    /\ last.op = "MergeIdenticalLots"
    /\ \A k \in 1..Len(last.names) :
           /\ findLotByName(prev.lots, last.names[k]) # 0
           /\ prev.lots[findLotByName(prev.lots, last.names[k])].currency = last.currency

\* The k-th lot named in the last call, as it was before the call.
Named(k) == prev.lots[findLotByName(prev.lots, last.names[k])]

\* A lot's price per unit: its cost basis divided by its amount.
PricePerUnit(lot) == Div(lot.costBasis, lot.amount)

\* Some named lot's original purchase date is not the date given.
DateDiffers == \E k \in 1..Len(last.names) : Named(k).originalPurchaseTime # last.date

\* Some named lot's account is not the account of the first.
AccountDiffers == \E k \in 2..Len(last.names) : Named(k).account # Named(1).account

\* Some named lot's price per unit is not that of the first.
PriceDiffers ==
    \E k \in 2..Len(last.names) : Ne(PricePerUnit(Named(k)), PricePerUnit(Named(1)))

\* The difference between the first named lot's price per unit and that of
\* some named lot, rounded to 11 decimal places, is not 0.
RoundedPriceDiffers ==
    \E k \in 2..Len(last.names) :
        Ne(RoundPlaces(Sub(PricePerUnit(Named(1)), PricePerUnit(Named(k))), 11), Zero)

\* C18 as stated: MergeIdenticalLots fails with IdentityMismatch whenever a
\* named lot's original purchase date differs from the date given, or a named
\* lot's price per unit or account differs from that of the first named lot;
\* it succeeds only when all named lots agree on all three.
C18_MergeFailsOnAnyDifference ==
    (MergedNamedLots /\ (DateDiffers \/ AccountDiffers \/ PriceDiffers)) =>
        err = "IdentityMismatch"

\* C18 amended: the same, with the prices per unit compared after rounding:
\* MergeIdenticalLots fails with IdentityMismatch whenever a named lot's date
\* differs from the date given, its account differs from that of the first
\* named lot, or the difference between the first named lot's price per unit
\* and its own, rounded to 11 decimal places, is not 0; it succeeds only when
\* no named lot differs in one of these ways.
C18_MergeFailsOnRoundedDifference ==
    (MergedNamedLots /\ (DateDiffers \/ AccountDiffers \/ RoundedPriceDiffers)) =>
        err = "IdentityMismatch"

\* C18 witness: MergeIdenticalLots has failed on two lots of the date given
\* that agree on price per unit, and are in different accounts.
C18_Witness ==
    /\ MergedNamedLots
    /\ Len(last.names) = 2
    /\ ~DateDiffers
    /\ AccountDiffers
    /\ Eq(PricePerUnit(Named(1)), PricePerUnit(Named(2)))
    /\ err = "IdentityMismatch"

\* The sums of the amounts and of the cost bases the lots named in the last
\* call from the k-th on held before the call.
RECURSIVE AmountOfNamedFrom(_)
AmountOfNamedFrom(k) ==
    IF k > Len(last.names) THEN Zero ELSE Add(Named(k).amount, AmountOfNamedFrom(k + 1))

RECURSIVE CostBasisOfNamedFrom(_)
CostBasisOfNamedFrom(k) ==
    IF k > Len(last.names) THEN Zero ELSE Add(Named(k).costBasis, CostBasisOfNamedFrom(k + 1))

\* C19 as stated: a successful MergeIdenticalLots appends exactly one lot,
\* with no parent and the next integer of the ledger as its name, of the date
\* and account the named lots share, whose amount and cost basis are the sums
\* of the amounts and cost bases the named lots held before the call; every
\* named lot is left with amount 0 and cost basis 0 and stays in the log.
C19_MergeAppendsSumAndDrains ==
    (MergedNamedLots /\ err = "none") =>
        /\ Len(lots) = Len(prev.lots) + 1
        /\ last.retLot = Len(lots)
        /\ sequenceGenerator = prev.sequenceGenerator + 1
        /\ lots[Len(lots)].parent = 0
        /\ lots[Len(lots)].name = <<sequenceGenerator>>
        /\ lots[Len(lots)].lotType = Asset
        /\ lots[Len(lots)].currency = last.currency
        /\ lots[Len(lots)].originalPurchaseTime = last.date
        /\ \A k \in 1..Len(last.names) :
               /\ Named(k).originalPurchaseTime = last.date
               /\ Named(k).account = lots[Len(lots)].account
        /\ Eq(lots[Len(lots)].amount, AmountOfNamedFrom(1))
        /\ Eq(lots[Len(lots)].costBasis, CostBasisOfNamedFrom(1))
        /\ \A i \in 1..Len(prev.lots) :
               IF \E k \in 1..Len(last.names) : prev.lots[i].name = last.names[k]
               THEN /\ lots[i].name = prev.lots[i].name
                    /\ IsZero(lots[i].amount)
                    /\ IsZero(lots[i].costBasis)
               ELSE lots[i] = prev.lots[i]

\* C19 witness: MergeIdenticalLots has succeeded on one lot that held nothing,
\* and has left it, and the lot it appended, with a cost basis that is not a
\* number.
C19_Witness ==
    /\ MergedNamedLots
    /\ err = "none"
    /\ Len(last.names) = 1
    /\ IsZero(Named(1).amount)
    /\ IsZero(Named(1).costBasis)
    /\ IsNaN(lots[findLotByName(prev.lots, last.names[1])].costBasis)
    /\ IsNaN(lots[Len(lots)].costBasis)

\* The last call was Remove on a lot of the log.
RemoveCalled == last.op = "Remove" /\ Src # 0

\* The last call failed with the panic e and left the lot it was made on with
\* the amount and the cost basis it had.
FailedLeavingLot(e) ==
    /\ err = e
    /\ lots[Src].amount = prev.lots[Src].amount
    /\ lots[Src].costBasis = prev.lots[Src].costBasis

\* C20 as stated: Remove fails with CurrencyMismatch when the currency given
\* is not the lot's, and with InsufficientBalance when the amount requested
\* exceeds the lot's remaining amount, a positive amount requested from a
\* drained lot included; in both cases the lot's remaining amount and cost
\* basis are unchanged.
C20_RemoveFailsAboveBalance ==
    RemoveCalled =>
        /\ prev.lots[Src].currency # last.currency => FailedLeavingLot("CurrencyMismatch")
        /\ (prev.lots[Src].currency = last.currency /\ Gt(last.amount, prev.lots[Src].amount)) =>
               FailedLeavingLot("InsufficientBalance")

\* C20 amended: the same, with InsufficientBalance when the amount requested
\* divided by the lot's remaining amount, rounded to 12 decimal places,
\* exceeds 1; this includes any positive amount requested from a drained lot.
C20_RemoveFailsAboveRoundedBalance ==
    RemoveCalled =>
        /\ prev.lots[Src].currency # last.currency => FailedLeavingLot("CurrencyMismatch")
        /\ (/\ prev.lots[Src].currency = last.currency
            /\ Gt(RoundPlaces(Div(last.amount, prev.lots[Src].amount), 12), One)) =>
               FailedLeavingLot("InsufficientBalance")
        /\ (/\ prev.lots[Src].currency = last.currency
            /\ IsZero(prev.lots[Src].amount)
            /\ Gt(last.amount, Zero)) =>
               FailedLeavingLot("InsufficientBalance")

\* C20 witness: Remove of a positive amount from a lot that was drained by
\* an earlier call has failed with InsufficientBalance.
C20_Witness ==
    /\ RemoveCalled
    /\ prev.lots[Src].currency = last.currency
    /\ IsZero(prev.lots[Src].amount)
    /\ Gt(prev.lots[Src].originalPurchaseAmount, Zero)
    /\ Gt(last.amount, Zero)
    /\ FailedLeavingLot("InsufficientBalance")

\* The indices of the root lots among the first n lots of ls: the lots with a
\* one-component name, which DepositNewMoney, Income and MergeIdenticalLots
\* create.
RootsUpTo(ls, n) == {i \in 1..n : Len(ls[i].name) = 1}

\* The calls that create a root lot.
RootOps == {"DepositNewMoney", "Income", "MergeIdenticalLots"}

\* C21: the k-th lot created by DepositNewMoney, Income or MergeIdenticalLots,
\* counted together in the order of the calls, is named by the number k,
\* starting at 1, and is appended by such a call; a call that creates child
\* lots, TaxableGains lots or spendCapitalGains lots leaves the ledger's
\* counter as it was and appends no lot with a one-component name.
C21_RootLotsNumberedInCallOrder ==
    /\ \A i \in RootsUpTo(lots, Len(lots)) :
           lots[i].name = <<Cardinality(RootsUpTo(lots, i))>>
    /\ sequenceGenerator = Cardinality(RootsUpTo(lots, Len(lots)))
    /\ last.op \notin RootOps =>
           /\ sequenceGenerator = prev.sequenceGenerator
           /\ \A i \in (Len(prev.lots) + 1)..Len(lots) : Len(lots[i].name) > 1
    /\ (last.op \in RootOps /\ err = "none") =>
           /\ Len(lots) = Len(prev.lots) + 1
           /\ lots[Len(lots)].name = <<prev.sequenceGenerator + 1>>

\* C21 witness: the second root lot has been created after a child lot, a
\* TaxableGains lot and a spendCapitalGains lot, and is named 2.
C21_Witness ==
    /\ last.op \in RootOps
    /\ err = "none"
    /\ lots[Len(lots)].name = <<2>>
    /\ \E i \in 1..Len(prev.lots) : prev.lots[i].lotType = TaxableGains
    /\ \E i \in 1..Len(prev.lots) : prev.lots[i].name[Len(prev.lots[i].name)] = 0
    /\ \E i \in 1..Len(prev.lots) : prev.lots[i].parent # 0

\* The indices of the children of the lot at index p among the first n lots
\* of ls.
ChildrenUpTo(ls, p, n) == {i \in 1..n : ls[i].parent = p}

\* C22: the n-th child created under a parent named P is named P.n, with n
\* counted from 1 for each parent on its own and never used twice, so that the
\* parent's counter is the number of its children; a successful
\* ExchangeTaxable takes two consecutive numbers of the source lot, the first
\* for the destination lot and the second for the TaxableGains lot.
C22_ChildrenNumberedPerParent ==
    /\ \A i \in 1..Len(lots) :
           lots[i].parent # 0 =>
               /\ lots[i].parent < i
               /\ lots[i].name = Append(lots[lots[i].parent].name,
                                        Cardinality(ChildrenUpTo(lots, lots[i].parent, i)))
    /\ \A p \in 1..Len(lots) :
           lots[p].sequenceGenerator = Cardinality(ChildrenUpTo(lots, p, Len(lots)))
    /\ (last.op = "ExchangeTaxable" /\ err = "none") =>
           /\ Len(lots) = Len(prev.lots) + 2
           /\ lots[Len(lots) - 1].lotType = Asset
           /\ lots[Len(lots) - 1].name =
                  Append(prev.lots[Src].name, prev.lots[Src].sequenceGenerator + 1)
           /\ lots[Len(lots)].lotType = TaxableGains
           /\ lots[Len(lots)].name =
                  Append(prev.lots[Src].name, prev.lots[Src].sequenceGenerator + 2)
           /\ lots[Src].sequenceGenerator = prev.lots[Src].sequenceGenerator + 2
    /\ (last.op \in {"Purchase", "Transfer", "ExchangeNonTaxable"} /\ Len(lots) > Len(prev.lots)) =>
           /\ lots[Len(prev.lots) + 1].parent = Src
           /\ lots[Len(prev.lots) + 1].name =
                  Append(prev.lots[Src].name, prev.lots[Src].sequenceGenerator + 1)
           /\ lots[Src].sequenceGenerator = prev.lots[Src].sequenceGenerator + 1

\* C22 witness: ExchangeTaxable has succeeded on a lot that had one child, and
\* its two lots are numbered 2 and 3 under that lot.
C22_Witness ==
    /\ last.op = "ExchangeTaxable"
    /\ err = "none"
    /\ prev.lots[Src].sequenceGenerator = 1
    /\ lots[Len(lots) - 1].name = Append(prev.lots[Src].name, 2)
    /\ lots[Len(lots)].name = Append(prev.lots[Src].name, 3)

\* The name of the spendCapitalGains lot of the lot the last call spends from.
AggregationName == Append(prev.lots[Src].name, 0)

\* The last call was Spend or Fee of a non-zero amount from a lot of the log,
\* and it returned.
Spent ==
    /\ last.op \in {"Spend", "Fee"}
    /\ Ne(last.amount, Zero)
    /\ Src # 0
    /\ err = "none"

\* C23: the gains Spend records on a lot named L are children of one lot named
\* L.spendCapitalGains, which the first Spend on L that records a gain appends
\* and every later one finds again; the k-th gain recorded for L is named
\* L.spendCapitalGains.k; Spend leaves L's own counter as it was, and the
\* spendCapitalGains lot is no child of L.
C23_SpendGainsUnderOneAggregationLot ==
    /\ \A i, j \in 1..Len(lots) :
           (lots[i].name = lots[j].name /\ lots[i].name[Len(lots[i].name)] = 0) => i = j
    /\ \A i \in 1..Len(lots) : lots[i].name[Len(lots[i].name)] = 0 => lots[i].parent = 0
    /\ Spent =>
           /\ lots[Src].sequenceGenerator = prev.lots[Src].sequenceGenerator
           /\ Len(lots) > Len(prev.lots) =>
                  /\ lots[Len(lots)].lotType = TaxableGains
                  /\ IF findLotByName(prev.lots, AggregationName) # 0
                     THEN /\ Len(lots) = Len(prev.lots) + 1
                          /\ lots[Len(lots)].parent = findLotByName(prev.lots, AggregationName)
                          /\ lots[Len(lots)].name =
                                 Append(AggregationName,
                                        prev.lots[findLotByName(prev.lots, AggregationName)].sequenceGenerator + 1)
                     ELSE /\ Len(lots) = Len(prev.lots) + 2
                          /\ lots[Len(lots) - 1].name = AggregationName
                          /\ lots[Len(lots)].parent = Len(lots) - 1
                          /\ lots[Len(lots)].name = Append(AggregationName, 1)

\* C23 witness: the second Spend that records a gain on a lot has found the
\* lot's spendCapitalGains lot and appended the gain numbered 2 under it, and
\* the lot's own counter is 0.
C23_Witness ==
    /\ Spent
    /\ last.op = "Spend"
    /\ findLotByName(prev.lots, AggregationName) # 0
    /\ Len(lots) = Len(prev.lots) + 1
    /\ lots[Len(lots)].name = Append(AggregationName, 2)
    /\ lots[Src].sequenceGenerator = 0

\* The value of the amount the last call sold, at the price of its currency
\* on its date.
SpendValue == Mul(lookupPrice(last.currency, last.date).price, last.amount)

\* C24: Spend of the amount 0 returns 0 and leaves the ledger as it was, also
\* when no lot has the name given or the lot is of another currency; a Spend
\* of a positive amount that succeeds returns the price of the currency on
\* the date times the amount, and appends a TaxableGains lot if and only if
\* that value less the cost basis removed is not 0.
C24_SpendOfZeroAndGains ==
    last.op = "Spend" =>
        /\ IsZero(last.amount) =>
               /\ err = "none"
               /\ IsZero(last.ret)
               /\ lots = prev.lots
               /\ sequenceGenerator = prev.sequenceGenerator
        /\ (Gt(last.amount, Zero) /\ err = "none") =>
               /\ Eq(last.ret, SpendValue)
               /\ IF Ne(Sub(SpendValue, Sub(prev.lots[Src].costBasis, lots[Src].costBasis)), Zero)
                  THEN /\ Len(lots) > Len(prev.lots)
                       /\ lots[Len(lots)].lotType = TaxableGains
                       /\ \A i \in (Len(prev.lots) + 1)..(Len(lots) - 1) :
                              lots[i].lotType # TaxableGains
                  ELSE Len(lots) = Len(prev.lots)

\* C24 witness: Spend of the amount 0 naming a lot that is not in the log has
\* returned 0, in a ledger that holds lots.
C24_Witness ==
    /\ last.op = "Spend"
    /\ IsZero(last.amount)
    /\ Src = 0
    /\ Len(prev.lots) > 0
    /\ err = "none"
    /\ lots = prev.lots

\* The lot the last call spends from as Remove leaves it.
SourceAfterRemove == Remove(prev.lots[Src], last.currency, last.amount).lot

\* C25: Fee removes the amount, with its share of the cost basis, from the
\* lot it spends from, and then adds the price of the currency on the date
\* times the amount to the cost basis of the lot the fee is applied to; the
\* TaxableGains lot it appends carries the account of the lot the fee is
\* applied to; when no lot has the name of the lot the fee is applied to, Fee
\* fails with LotNotFound and the ledger is as it was.
C25_FeeAddsValueToTarget ==
    last.op = "Fee" =>
        /\ FeeTarget = 0 =>
               /\ err = "LotNotFound"
               /\ lots = prev.lots
               /\ sequenceGenerator = prev.sequenceGenerator
        /\ (FeeTarget # 0 /\ err = "none" /\ IsZero(last.amount)) =>
               /\ Len(lots) = Len(prev.lots)
               /\ \A i \in 1..Len(lots) : i # FeeTarget => lots[i] = prev.lots[i]
               /\ Same(lots[FeeTarget].costBasis, prev.lots[FeeTarget].costBasis)
        /\ (FeeTarget # 0 /\ err = "none" /\ ~IsZero(last.amount)) =>
               /\ Src # 0
               /\ Same(lots[Src].amount, SourceAfterRemove.amount)
               /\ Same(lots[FeeTarget].costBasis,
                       Add(IF FeeTarget = Src THEN SourceAfterRemove.costBasis
                           ELSE prev.lots[FeeTarget].costBasis,
                           SpendValue))
               /\ FeeTarget # Src => Same(lots[Src].costBasis, SourceAfterRemove.costBasis)
               /\ \A i \in (Len(prev.lots) + 1)..Len(lots) :
                      lots[i].lotType = TaxableGains =>
                          lots[i].taxableGainsDetails.account = prev.lots[FeeTarget].account

\* C25 witness: Fee has spent from a lot in one account and applied the fee to
\* a lot in another, whose cost basis has grown by the value of the fee, and
\* the TaxableGains lot appended carries the account of that lot.
C25_Witness ==
    /\ last.op = "Fee"
    /\ err = "none"
    /\ FeeTarget # 0
    /\ Src # 0
    /\ FeeTarget # Src
    /\ prev.lots[FeeTarget].account # prev.lots[Src].account
    /\ Gt(SpendValue, Zero)
    /\ Eq(lots[FeeTarget].costBasis, Add(prev.lots[FeeTarget].costBasis, SpendValue))
    /\ lots[Len(lots)].lotType = TaxableGains
    /\ Len(lots) > Len(prev.lots)
    /\ lots[Len(lots)].taxableGainsDetails.account = prev.lots[FeeTarget].account

\* The index in prev.lots of the k-th lot named in the last call; 0 when no
\* lot carries that name.
NamedIndex(k) == findLotByName(prev.lots, last.names[k])

\* The indices of the lots the legs of the last call appended: the lots of
\* type Asset with a parent among the lots appended.
LegSet == {i \in (Len(prev.lots) + 1)..Len(lots) : lots[i].parent # 0 /\ lots[i].lotType = Asset}

\* The index of the lot the k-th leg appended.
Leg(k) == CHOOSE i \in LegSet : Cardinality({j \in LegSet : j <= i}) = k

\* The amount the k-th leg removed: the amount its lot was created with.
LegAmount(k) == lots[Leg(k)].originalPurchaseAmount

\* The sum of the amounts the legs from the k-th to the n-th removed.
RECURSIVE LegAmountsBetween(_, _)
LegAmountsBetween(k, n) == IF k > n THEN Zero ELSE Add(LegAmount(k), LegAmountsBetween(k + 1, n))

\* The sum of the amounts the lots of the legs from the k-th on hold after
\* the call.
RECURSIVE LegBalancesFrom(_)
LegBalancesFrom(k) ==
    IF k > Cardinality(LegSet) THEN Zero ELSE Add(lots[Leg(k)].amount, LegBalancesFrom(k + 1))

\* C26 as stated: a successful TransferMultipleLots takes from the lots named
\* in the order given, each leg removing the smaller of the lot's remaining
\* amount and the amount still needed, so that every lot named but the last
\* is left with amount 0 and cost basis 0; the amounts the legs removed sum to
\* totalAmount; each leg pays the part fee*(leg amount / totalAmount) of the
\* fee, and the parts sum to fee; each leg appends one child lot of the lot it
\* took from, in toAccount.
C26_TransferMultipleLotsDrainsInOrder ==
    (last.op = "TransferMultipleLots" /\ err = "none") =>
        /\ Cardinality(LegSet) = Len(last.names)
        /\ \A k \in 1..Len(last.names) :
               /\ lots[Leg(k)].parent = NamedIndex(k)
               /\ lots[Leg(k)].account = last.account
               /\ Eq(LegAmount(k),
                     MathMin(prev.lots[NamedIndex(k)].amount,
                             Sub(last.amount, LegAmountsBetween(1, k - 1))))
               /\ Eq(lots[Leg(k)].amount,
                     Sub(LegAmount(k), Mul(last.amount2, Div(LegAmount(k), last.amount))))
               /\ k < Len(last.names) =>
                      /\ IsZero(lots[NamedIndex(k)].amount)
                      /\ IsZero(lots[NamedIndex(k)].costBasis)
        /\ Eq(LegAmountsBetween(1, Len(last.names)), last.amount)
        /\ Eq(Sub(LegAmountsBetween(1, Len(last.names)), LegBalancesFrom(1)), last.amount2)

\* C26 witness: TransferMultipleLots has succeeded on a lot that held nothing
\* and a lot that held the total, and has left the first with an amount that
\* is not a number.
C26_Witness ==
    /\ last.op = "TransferMultipleLots"
    /\ err = "none"
    /\ Len(last.names) = 2
    /\ IsZero(prev.lots[NamedIndex(1)].amount)
    /\ Eq(prev.lots[NamedIndex(2)].amount, last.amount)
    /\ IsNaN(lots[NamedIndex(1)].amount)

\* The amount the first k lots named in the last call held together before
\* the call, a lot named twice counted once.
RECURSIVE HeldByFirst(_)
HeldByFirst(k) ==
    IF k = 0 THEN Zero
    ELSE IF \E j \in 1..(k - 1) : NamedIndex(j) = NamedIndex(k) THEN HeldByFirst(k - 1)
    ELSE Add(prev.lots[NamedIndex(k)].amount, HeldByFirst(k - 1))

\* The last call was a TransferMultipleLots on lots that together held less
\* than totalAmount.
TransferShort ==
    /\ last.op = "TransferMultipleLots"
    /\ Lt(HeldByFirst(Len(last.names)), last.amount)

\* The last call was a TransferMultipleLots that named its k-th lot after the
\* lots before it had satisfied totalAmount.
TransferSpare(k) ==
    /\ last.op = "TransferMultipleLots"
    /\ k \in 2..Len(last.names)
    /\ Ge(HeldByFirst(k - 1), last.amount)
    /\ \A j \in 2..(k - 1) : ~Ge(HeldByFirst(j - 1), last.amount)

\* C27 as stated: TransferMultipleLots on lots that together hold less than
\* totalAmount fails only after every lot named has been drained and its leg
\* appended, and TransferMultipleLots naming a lot after totalAmount has been
\* satisfied fails with the legs of the lots before it applied; either way
\* the ledger is not what it was before the call.
C27_TransferMultipleLotsNotTransactional ==
    /\ TransferShort =>
           /\ err = "UnderCommitted"
           /\ Cardinality(LegSet) = Len(last.names)
           /\ \A k \in 1..Len(last.names) :
                  /\ lots[Leg(k)].parent = NamedIndex(k)
                  /\ IsZero(lots[NamedIndex(k)].amount)
           /\ lots # prev.lots
    /\ \A k \in 2..Len(last.names) :
           TransferSpare(k) =>
               /\ err = "OverCommitted"
               /\ Cardinality(LegSet) = k - 1
               /\ \A j \in 1..(k - 1) : lots[Leg(j)].parent = NamedIndex(j)
               /\ lots # prev.lots

\* C27 witness: TransferMultipleLots has failed for want of funds on a lot
\* that held nothing, and has left it with an amount that is not a number.
C27_Witness ==
    /\ TransferShort
    /\ err = "UnderCommitted"
    /\ IsZero(prev.lots[NamedIndex(1)].amount)
    /\ IsNaN(lots[NamedIndex(1)].amount)

\* The sum of the amounts the lots named by the first k names of the last
\* call held before the call, a lot named twice counted twice.
RECURSIVE NamedTotal(_)
NamedTotal(k) == IF k = 0 THEN Zero ELSE Add(NamedTotal(k - 1), prev.lots[NamedIndex(k)].amount)

\* C28 as stated: TransferMultipleLotsFully fails when amountRemoved differs
\* from the sum of the amounts of the lots named, with no lot modified and
\* nothing appended; when it succeeds every lot named is left with amount 0
\* and cost basis 0.
C28_TransferFullyMatchesOrFails ==
    last.op = "TransferMultipleLotsFully" =>
        /\ ~Eq(NamedTotal(Len(last.names)), last.amount) =>
               /\ err # "none"
               /\ lots = prev.lots
               /\ sequenceGenerator = prev.sequenceGenerator
        /\ err = "none" =>
               \A k \in 1..Len(last.names) :
                   /\ IsZero(lots[NamedIndex(k)].amount)
                   /\ IsZero(lots[NamedIndex(k)].costBasis)

\* C28 witness: TransferMultipleLotsFully has succeeded on a lot that held
\* nothing and a lot that held amountRemoved, and has left the first with an
\* amount that is not a number.
C28_Witness ==
    /\ last.op = "TransferMultipleLotsFully"
    /\ err = "none"
    /\ Len(last.names) = 2
    /\ IsZero(prev.lots[NamedIndex(1)].amount)
    /\ Eq(prev.lots[NamedIndex(2)].amount, last.amount)
    /\ IsNaN(lots[NamedIndex(1)].amount)

\* The amount the k-th leg of the last call sold: the amount recorded in the
\* TaxableGains lot appended after the lot of the leg.
LegSold(k) == lots[Leg(k) + 1].taxableGainsDetails.soldAmount

\* The sum of the amounts the legs from the k-th to the n-th sold.
RECURSIVE LegSoldBetween(_, _)
LegSoldBetween(k, n) == IF k > n THEN Zero ELSE Add(LegSold(k), LegSoldBetween(k + 1, n))

\* The sum of the amounts the first j legs sold from the lot the k-th leg
\* sold from.
RECURSIVE SoldFromLotBefore(_, _)
SoldFromLotBefore(k, j) ==
    IF j = 0 THEN Zero
    ELSE Add(IF NamedIndex(j) = NamedIndex(k) THEN LegSold(j) ELSE Zero, SoldFromLotBefore(k, j - 1))

\* Every leg of the last call sold, from the lot named for it, the smaller of
\* the lot's amount and the amount still to sell, and gave its lot the part
\* totalAmountToPurchase * (amount sold / totalAmountToSell).
LegsSoldInOrder ==
    /\ Cardinality(LegSet) = Len(last.names)
    /\ \A k \in 1..Len(last.names) :
           /\ lots[Leg(k)].parent = NamedIndex(k)
           /\ lots[Leg(k)].currency = last.currency2
           /\ lots[Leg(k) + 1].lotType = TaxableGains
           /\ Eq(LegSold(k),
                 MathMin(Sub(prev.lots[NamedIndex(k)].amount, SoldFromLotBefore(k, k - 1)),
                         Sub(last.amount, LegSoldBetween(1, k - 1))))
           /\ Eq(lots[Leg(k)].amount, Mul(last.amount2, Div(LegSold(k), last.amount)))

\* What is left to sell after the legs of the last call.
SellResidual == Sub(last.amount, LegSoldBetween(1, Cardinality(LegSet)))

\* What is left to purchase after the legs of the last call.
PurchaseResidual == Sub(last.amount2, LegAmountsBetween(1, Cardinality(LegSet)))

\* The last call was an ExchangeTaxableMultipleLots whose loop ran to its end.
ExchangedAllLegs ==
    /\ last.op = "ExchangeTaxableMultipleLots"
    /\ err \in {"none", "UnderCommitted"}

\* C29 as stated: a successful ExchangeTaxableMultipleLots sells from the lots
\* named in the order given, each leg the smaller of the lot's amount and the
\* amount still to sell, and gives each leg the purchased amount
\* totalAmountToPurchase * (amount sold / totalAmountToSell), so that the
\* amounts sold sum to totalAmountToSell and the amounts of the destination
\* lots to totalAmountToPurchase; it fails if after the last lot named either
\* residual is not 0.
C29_ExchangeMultipleSumsToTotals ==
    ExchangedAllLegs =>
        /\ err = "none" => (LegsSoldInOrder /\ IsZero(SellResidual) /\ IsZero(PurchaseResidual))
        /\ (~IsZero(SellResidual) \/ ~IsZero(PurchaseResidual)) => err = "UnderCommitted"

\* C29 amended: the residuals are compared with 0 after rounding to 11
\* decimal places: on success the amounts sold sum to totalAmountToSell and
\* the amounts of the destination lots to totalAmountToPurchase within that
\* rounding, and the call fails if after the last lot named either residual,
\* rounded to 11 decimal places, is not 0.
C29_ExchangeMultipleSumsToRoundedTotals ==
    ExchangedAllLegs =>
        /\ err = "none" =>
               /\ LegsSoldInOrder
               /\ IsZero(RoundPlaces(SellResidual, 11))
               /\ IsZero(RoundPlaces(PurchaseResidual, 11))
        /\ (~IsZero(RoundPlaces(SellResidual, 11)) \/ ~IsZero(RoundPlaces(PurchaseResidual, 11))) =>
               err = "UnderCommitted"

\* C29 witness: ExchangeTaxableMultipleLots has succeeded on two lots with a
\* residual to sell that is not 0.
C29_Witness ==
    /\ last.op = "ExchangeTaxableMultipleLots"
    /\ err = "none"
    /\ Len(last.names) = 2
    /\ ~IsZero(SellResidual)
    /\ Gt(LegSold(1), Zero)
    /\ Gt(LegSold(2), Zero)

\* The TaxableGains details the exchange that appended the k-th lot named in
\* the last call recorded, in the lot appended after it.
ExchangeDetails(k) == lots[NamedIndex(k) + 1].taxableGainsDetails

\* The last call was a successful MergeIdenticalLots of lots that
\* ExchangeTaxable appended, each from a source lot of its own, on the date
\* of the merge, and valued at the price of the currency purchased.
MergedExchangedLots ==
    /\ last.op = "MergeIdenticalLots"
    /\ err = "none"
    /\ \A k \in 1..Len(last.names) :
           /\ NamedIndex(k) # 0
           /\ NamedIndex(k) < Len(prev.lots)
           /\ lots[NamedIndex(k)].parent # 0
           /\ lots[NamedIndex(k) + 1].lotType = TaxableGains
           /\ lots[NamedIndex(k) + 1].parent = lots[NamedIndex(k)].parent
           /\ ExchangeDetails(k).dateOfSale = last.date
           /\ Eq(ExchangeDetails(k).proceeds,
                 Mul(lookupPrice(last.currency, last.date).price,
                     lots[NamedIndex(k)].originalPurchaseAmount))
    /\ \A j, k \in 1..Len(last.names) :
           j # k => lots[NamedIndex(j)].parent # lots[NamedIndex(k)].parent

\* The sum of the gains of the TaxableGains lots of the first k exchanges.
RECURSIVE GainsOfFirst(_)
GainsOfFirst(k) == IF k = 0 THEN Zero ELSE Add(GainsOfFirst(k - 1), Gains(ExchangeDetails(k)))

\* The sum of the cost bases the first k exchanges removed from their
\* sources.
RECURSIVE RemovedByFirst(_)
RemovedByFirst(k) == IF k = 0 THEN Zero ELSE Add(RemovedByFirst(k - 1), ExchangeDetails(k).costBasis)

\* C30 as stated: after N ExchangeTaxable calls from N source lots into one
\* currency on one date, valued at the price of the currency purchased, and
\* MergeIdenticalLots of the N lots purchased, the sum of the gains of the N
\* TaxableGains lots is the cost basis of the merged lot less the sum of the
\* N cost bases removed from the sources.
C30_GainsSumToValuationLessBasis ==
    MergedExchangedLots =>
        Eq(GainsOfFirst(Len(last.names)),
           Sub(lots[last.retLot].costBasis, RemovedByFirst(Len(last.names))))

\* C30 witness: a lot purchased by an exchange for an amount of 0 has been
\* merged, and the merged lot has a cost basis that is not a number.
C30_Witness ==
    /\ MergedExchangedLots
    /\ Len(last.names) = 1
    /\ IsZero(prev.lots[NamedIndex(1)].amount)
    /\ IsNaN(lots[last.retLot].costBasis)
    /\ ~IsNaN(GainsOfFirst(1))

\* The indices of the lots that carry TaxableGains details.
GainsLots == {i \in 1..Len(lots) : lots[i].taxableGainsDetails.present}

TableHasEntry ==
    /\ last.currency \in DOMAIN last.prices
    /\ last.date \in DOMAIN last.prices[last.currency]

\* C32: the price lookup returns exactly 1 for the reporting currency
\* whatever the price table holds, and for another currency fails with
\* MissingPrice unless the table has an entry for that currency and that
\* date, whose price it returns.
C32_LookupPriceOneOrExactEntry ==
    last.op = "lookupPrice" =>
        /\ last.currency = localCurrency => (err = "none" /\ last.ret = One)
        /\ (last.currency # localCurrency /\ ~TableHasEntry) => err = "MissingPrice"
        /\ (last.currency # localCurrency /\ TableHasEntry) =>
               (err = "none" /\ last.ret = last.prices[last.currency][last.date])

\* C32 witness: the price of the reporting currency has been looked up in a
\* table that prices it at 2 on that date, and 1 has come back.
C32_Witness ==
    /\ last.op = "lookupPrice"
    /\ last.currency = localCurrency
    /\ TableHasEntry
    /\ last.prices[last.currency][last.date] = Num(2)
    /\ last.ret = One

RECURSIVE CostBasisUpTo(_, _)
CostBasisUpTo(ls, n) == IF n = 0 THEN Zero ELSE Add(CostBasisUpTo(ls, n - 1), ls[n].costBasis)

\* The sum of the gains of the TaxableGains records among the first n lots of
\* ls.
RECURSIVE GainsUpTo(_, _)
GainsUpTo(ls, n) ==
    IF n = 0 THEN Zero
    ELSE Add(GainsUpTo(ls, n - 1),
             IF ls[n].taxableGainsDetails.present THEN Gains(ls[n].taxableGainsDetails) ELSE Zero)

\* The cost basis the last call brought in as new money or income.
CostBasisBroughtIn ==
    IF last.op \in {"DepositNewMoney", "Income"} THEN last.amount2 ELSE Zero

\* C34 as stated: after successful calls the sum of the cost bases of all
\* lots is the sum of the original cost bases of the lots DepositNewMoney and
\* Income created plus the sum of the gains of all TaxableGains lots: each
\* successful call changes the first sum by the cost basis it brings in and
\* the gains it records, so that Purchase, Transfer without a fee,
\* ExchangeNonTaxable and MergeIdenticalLots leave it unchanged.
C34_CostBasisIsOriginPlusGains ==
    (err = "none" /\ last.op # "New") =>
        Eq(CostBasisUpTo(lots, Len(lots)),
           Add(CostBasisUpTo(prev.lots, Len(prev.lots)),
               Add(CostBasisBroughtIn,
                   Sub(GainsUpTo(lots, Len(lots)), GainsUpTo(prev.lots, Len(prev.lots))))))

\* C34 witness: a Transfer of 0 without a fee has succeeded on a lot that
\* held 0, and the sum of the cost bases, a number before the call, is not a
\* number after it.
C34_Witness ==
    /\ last.op = "Transfer"
    /\ err = "none"
    /\ IsZero(last.amount2)
    /\ ~IsNaN(CostBasisUpTo(prev.lots, Len(prev.lots)))
    /\ IsNaN(CostBasisUpTo(lots, Len(lots)))

\* C35 as stated: TotalInvestment changes only when DepositNewMoney or Income
\* brings new money in: a successful Purchase, Transfer, exchange, Spend, Fee
\* or MergeIdenticalLots, a merge of lots in the reporting currency included,
\* leaves it unchanged.
C35_TotalInvestmentOnlyFromNewMoney ==
    (err = "none" /\ last.op \notin {"New", "DepositNewMoney", "Income"}) =>
        Same(TotalInvestment(lots), TotalInvestment(prev.lots))

\* C35 witness: MergeIdenticalLots has merged a lot in the reporting currency
\* that held something, and TotalInvestment is larger than before the call.
C35_Witness ==
    /\ last.op = "MergeIdenticalLots"
    /\ err = "none"
    /\ last.currency = localCurrency
    /\ Gt(TotalInvestment(lots), TotalInvestment(prev.lots))

\* The id of lot i says what its parent reference says: no parent and a one
\* component id, or a parent whose id is the id of the lot less its last
\* component.
IdEncodesParent(i) ==
    /\ lots[i].parent = 0 <=> Len(lots[i].name) = 1
    /\ Len(lots[i].name) > 1 =>
           /\ lots[i].parent # 0
           /\ lots[lots[i].parent].name = SubSeq(lots[i].name, 1, Len(lots[i].name) - 1)

\* C36 as stated: a lot has no parent reference exactly when its id is a
\* plain integer, and every lot with id "P.x" has the lot with id P as its
\* parent, the aggregation lot "L.spendCapitalGains" of Spend included.
C36_IdEncodesAncestry == \A i \in 1..Len(lots) : IdEncodesParent(i)

\* C36 witness: Spend has appended the aggregation lot "L.spendCapitalGains"
\* of a lot L of the ledger, and the aggregation lot has no parent reference.
C36_Witness ==
    \E i \in 1..Len(lots) :
        /\ Len(lots[i].name) > 1
        /\ lots[i].name[Len(lots[i].name)] = 0
        /\ findLotByName(lots, SubSeq(lots[i].name, 1, Len(lots[i].name) - 1)) # 0
        /\ lots[i].parent = 0

\* The lot reached from lot i by following n parent references, or 0 when
\* the references end before.
RECURSIVE Ancestor(_, _)
Ancestor(i, n) == IF n = 0 \/ i = 0 THEN i ELSE Ancestor(lots[i].parent, n - 1)

\* C37: every lot with a parent reference comes later in the log than its
\* parent, so that following parent references from any lot ends at a lot
\* without a parent and never comes back to a lot it has passed.
C37_ParentsPrecedeChildren ==
    \A i \in 1..Len(lots) :
        /\ lots[i].parent # 0 => lots[i].parent \in 1..(i - 1)
        /\ Ancestor(i, Len(lots)) = 0
        /\ \A n \in 1..Len(lots) : Ancestor(i, n) # i

\* C37 witness: the log holds a lot whose parent has a parent.
C37_Witness ==
    \E i \in 1..Len(lots) :
        /\ lots[i].parent # 0
        /\ lots[lots[i].parent].parent # 0

\* The lot a TaxableGains record was taken from: the parent of the record of
\* an exchange, and the lot the aggregation lot is named after for a record
\* of Spend.
DisposedFrom(g) ==
    With(lots[lots[g].parent].name, LAMBDA n :
    IF n[Len(n)] = 0
    THEN CHOOSE j \in 1..Len(lots) : lots[j].name = SubSeq(n, 1, Len(n) - 1)
    ELSE lots[g].parent)

\* The lot at the head of the chain of transfers that leads to lot i: under
\* SpecTransferred a lot made by Transfer holds the currency of its parent,
\* and a lot made by an exchange does not.
RECURSIVE AcquisitionOf(_)
AcquisitionOf(i) ==
    IF lots[i].parent # 0 /\ lots[lots[i].parent].currency = lots[i].currency
    THEN AcquisitionOf(lots[i].parent)
    ELSE i

\* C38: the lot a deposit or an exchange creates carries the date of that
\* call, and every TaxableGains record of a Spend, a Fee, a transfer fee or
\* an ExchangeTaxable taken from a lot reached from such a lot by a chain of
\* transfers carries that date as its original purchase date, the date of the
\* call as its date of sale, and is long-term exactly when the two are 365
\* days or more apart, whatever the dates of the transfers.
C38_HoldingPeriodSurvivesTransfers ==
    /\ \A g \in GainsLots :
           /\ lots[g].taxableGainsDetails.originalPurchaseTime =
                  lots[AcquisitionOf(DisposedFrom(g))].originalPurchaseTime
           /\ IsLongTerm(lots[g].taxableGainsDetails) <=>
                  (lots[g].taxableGainsDetails.dateOfSale
                     - lots[AcquisitionOf(DisposedFrom(g))].originalPurchaseTime >= 365)
           /\ g > Len(prev.lots) => lots[g].taxableGainsDetails.dateOfSale = last.date
    /\ (err = "none" /\ last.op \in {"DepositNewMoney", "ExchangeTaxable", "ExchangeNonTaxable"}) =>
           /\ lots[Len(prev.lots) + 1].lotType = Asset
           /\ lots[Len(prev.lots) + 1].originalPurchaseTime = last.date
           /\ AcquisitionOf(Len(prev.lots) + 1) = Len(prev.lots) + 1

\* C38 witness: money deposited on day 1 and transferred since is spent from
\* on day 366, less than a year after any transfer, and the record is
\* long-term.
C38_Witness ==
    /\ err = "none"
    /\ last.op \in {"Spend", "Fee"}
    /\ last.date = 366
    /\ Len(lots) \in GainsLots
    /\ Len(lots) > Len(prev.lots)
    /\ AcquisitionOf(DisposedFrom(Len(lots))) # DisposedFrom(Len(lots))
    /\ lots[DisposedFrom(Len(lots))].name = last.from
    /\ lots[AcquisitionOf(DisposedFrom(Len(lots)))].originalPurchaseTime = 1
    /\ \A t \in TransferDays : last.date - t < 365
    /\ IsLongTerm(lots[Len(lots)].taxableGainsDetails)

\* The records the last call appended to the log.
NewGainsLots == {g \in GainsLots : g > Len(prev.lots)}

\* C39: the TaxableGains record of the fee of a Transfer names the account of
\* the source lot, is a child of the aggregation lot named after the new
\* destination lot, and records the fee as the amount sold; the fee has left
\* the destination lot, which holds the amount transferred less the fee, and
\* the source lot has lost the amount transferred and no more.
C39_TransferFeeAttributedToSourceAccount ==
    (last.op = "Transfer" /\ err = "none") =>
        \A g \in NewGainsLots :
            /\ lots[g].taxableGainsDetails.account = prev.lots[Src].account
            /\ lots[lots[g].parent].name = Append(lots[last.retLot].name, 0)
            /\ last.retLot = Len(prev.lots) + 1
            /\ lots[last.retLot].parent = Src
            /\ Eq(lots[g].taxableGainsDetails.soldAmount, last.amount2)
            /\ Eq(lots[last.retLot].amount, Sub(last.amount, last.amount2))
            /\ lots[Src].amount =
                   Remove(prev.lots[Src], last.currency, last.amount).lot.amount

\* C39 witness: a Transfer from a Bitfinex lot to Coinbase has recorded the
\* gains of its fee, on Bitfinex.
C39_Witness ==
    /\ last.op = "Transfer"
    /\ err = "none"
    /\ Gt(last.amount2, Zero)
    /\ prev.lots[Src].account = "Bitfinex"
    /\ last.account = "Coinbase"
    /\ lots[last.retLot].account = "Coinbase"
    /\ \E g \in NewGainsLots : lots[g].taxableGainsDetails.account = "Bitfinex"

=============================================================================
